---- MODULE Spec2Model ----
(***************************************************************************)
(* Model of the authentication/session core of smartschool:               *)
(*   src/src/smartschool/session.py      (Smartschool, _try_login, ...)   *)
(*   src/src/smartschool/credentials.py  (Credentials and its loaders)    *)
(* Python strings are sequences of one-character strings, so that         *)
(* substring tests, endswith, strip, replace and URL building are         *)
(* computed as the code computes them.                                    *)
(***************************************************************************)
EXTENDS Integers, Sequences, FiniteSets, TLC

\* ------------------------------------------------------------------ bounds
\* Largest number of fields in a login form served by the portal.
MaxFields == 3
\* Largest number of fields in a verification form served by the portal.
MaxVerifFields == 2
\* Largest page number the Results iterator asks for.
MaxPages == 3
\* Largest number of calls one thread makes on the shared Session.
MaxCalls == 2

\* ------------------------------------------------------- string literals
HOST == <<"s",".","b","e">>  \* "s.be"
SCHEME == <<"h","t","t","p","s",":","/","/">>  \* "https://"
P_ROOT == <<"/">>  \* "/"
P_LOGIN == <<"/","l","o","g","i","n">>  \* "/login"
P_VERIF == <<"/","a","c","c","o","u","n","t","-","v","e","r","i","f","i","c","a","t","i","o","n">>  \* "/account-verification"
P_2FA == <<"/","2","f","a">>  \* "/2fa"
P_2FA_CONFIG == <<"/","2","f","a","/","a","p","i","/","v","1","/","c","o","n","f","i","g">>  \* "/2fa/api/v1/config"
P_2FA_GA == <<"/","2","f","a","/","a","p","i","/","v","1","/","g","o","o","g","l","e","-","a","u","t","h","e","n","t","i","c","a","t","o","r">>  \* "/2fa/api/v1/google-authenticator"
P_API == <<"/","a","p","i">>  \* "/api"
S_username == <<"u","s","e","r","n","a","m","e">>  \* "username"
S_password == <<"p","a","s","s","w","o","r","d">>  \* "password"
S_sqa == <<"_","s","e","c","u","r","i","t","y","_","q","u","e","s","t","i","o","n","_","a","n","s","w","e","r">>  \* "_security_question_answer"
F_USER == <<"l","o","g","i","n","_","f","o","r","m","[","_","u","s","e","r","n","a","m","e","]">>  \* "login_form[_username]"
F_PASS == <<"l","o","g","i","n","_","f","o","r","m","[","_","p","a","s","s","w","o","r","d","]">>  \* "login_form[_password]"
F_TOKEN == <<"l","o","g","i","n","_","f","o","r","m","[","_","t","o","k","e","n","]">>  \* "login_form[_token]"
F_BOTH == <<"u","s","e","r","n","a","m","e","_","p","a","s","s","w","o","r","d">>  \* "username_password"
F_SQA == <<"a","c","c","o","u","n","t","_","v","e","r","i","f","i","c","a","t","i","o","n","_","f","o","r","m","[","_","s","e","c","u","r","i","t","y","_","q","u","e","s","t","i","o","n","_","a","n","s","w","e","r","]">>  \* "account_verification_form[_security_question_answer]"
F_ALTSQA == <<"x","_","s","e","c","u","r","i","t","y","_","q","u","e","s","t","i","o","n","_","a","n","s","w","e","r">>  \* "x_security_question_answer"
F_VTOKEN == <<"a","c","c","o","u","n","t","_","v","e","r","i","f","i","c","a","t","i","o","n","_","f","o","r","m","[","_","t","o","k","e","n","]">>  \* "account_verification_form[_token]"
V_TOK == <<"t","0","k">>  \* "t0k"
V_DEF == <<"d","f","l","t">>  \* "dflt"
U_NAME == <<"u","1">>  \* "u1"
U_PASS == <<"p","w">>  \* "pw"
D_SLASH == <<"2","0","0","8","/","0","5","/","0","1">>  \* "2008/05/01"
D_DASH == <<"2","0","0","8","-","0","5","-","0","1">>  \* "2008-05-01"
D_PAD == <<" ","2","0","0","8","/","0","5","/","0","1"," ">>  \* " 2008/05/01 "
TOTP_SECRET == <<"J","B","S","W">>  \* "JBSW"
P_BROWSE == <<"/","D","o","c","u","m","e","n","t","s","/","I","n","d","e","x","/","I","n","d","e","x","/","c","o","u","r","s","e","I","D","/","1","/","p","a","r","e","n","t","I","D","/","0","/","s","s","I","D","/","2">>  \* "/Documents/Index/Index/courseID/1/parentID/0/ssID/2"
P_DOWNLOAD == <<"/","D","o","c","u","m","e","n","t","s","/","D","o","w","n","l","o","a","d","/","I","n","d","e","x","/","h","t","m","/","0","/","c","o","u","r","s","e","I","D","/","1","/","d","o","c","I","D","/","3","/","s","s","I","D","/","2">>  \* "/Documents/Download/Index/htm/0/courseID/1/docID/3/ssID/2"
P_RESULTS == <<"/","r","e","s","u","l","t","s","/","a","p","i","/","v","1","/","e","v","a","l","u","a","t","i","o","n","s","/","?","p","a","g","e","N","u","m","b","e","r","=">>  \* "/results/api/v1/evaluations/?pageNumber="
Q_ITEMS == <<"&","i","t","e","m","s","O","n","P","a","g","e","=">>  \* "&itemsOnPage="
EMPTY == <<>>  \* ""
BLANK == <<" ">>  \* " "

\* ------------------------------------------------------- string operators
\* needle in hay, by comparing needle with hay at every position
Occurs(hay, needle) ==
    \E i \in 0..(Len(hay) - Len(needle)) :
        \A j \in 1..Len(needle) : hay[i + j] = needle[j]
\* The tests the handlers make on field names, worked out once.
FieldNames ==
    {F_USER, F_PASS, F_TOKEN, F_BOTH, F_SQA, F_ALTSQA, F_VTOKEN, EMPTY}
Needles == {S_username, S_password, S_sqa}
OccursTable ==
    { <<n, k, Occurs(n, k)>> : n \in FieldNames, k \in Needles }
\* needle in hay
Contains(hay, needle) ==
    IF hay \in FieldNames /\ needle \in Needles
    THEN <<hay, needle, TRUE>> \in OccursTable
    ELSE Occurs(hay, needle)

\* s.endswith(suffix)
EndsWith(s, suffix) ==
    /\ Len(suffix) <= Len(s)
    /\ \A j \in 1..Len(suffix) : s[Len(s) - Len(suffix) + j] = suffix[j]

\* s.endswith(("/login", "/account-verification", "/2fa"))
EndsWithAuth(s) ==
    EndsWith(s, P_LOGIN) \/ EndsWith(s, P_VERIF) \/ EndsWith(s, P_2FA)

\* s.lstrip(c)
RECURSIVE LStripChar(_, _)
LStripChar(s, c) ==
    IF s # <<>> /\ Head(s) = c THEN LStripChar(Tail(s), c) ELSE s

\* s.strip(): whitespace removed at both ends
RECURSIVE LStrip(_)
LStrip(s) == IF s # <<>> /\ Head(s) = " " THEN LStrip(Tail(s)) ELSE s
RECURSIVE RStrip(_)
RStrip(s) ==
    IF s # <<>> /\ s[Len(s)] = " " THEN RStrip(SubSeq(s, 1, Len(s) - 1)) ELSE s
Strip(s) == RStrip(LStrip(s))

\* s.replace(a, b) for one-character a and b
Replace(s, a, b) == [i \in 1..Len(s) |-> IF s[i] = a THEN b ELSE s[i]]

\* ---------------------------------------------------------- Python values
None == [t |-> "none"]
PyStr(s) == [t |-> "str", s |-> s]
PyDate(y, m, d) == [t |-> "date", y |-> y, m |-> m, d |-> d]
\* the attribute does not exist on the object (hasattr is False)
Absent == [t |-> "absent"]
\* truthiness of a value
Truthy(v) == CASE v.t = "none" -> FALSE
               [] v.t = "absent" -> FALSE
               [] v.t = "str" -> v.s # <<>>
               [] OTHER -> TRUE

DigitChar == <<"0","1","2","3","4","5","6","7","8","9">>
Pad2(n) == <<DigitChar[((n \div 10) % 10) + 1], DigitChar[(n % 10) + 1]>>
Pad4(n) == Pad2(n \div 100) \o Pad2(n % 100)
\* date.strftime('%Y-%m-%d')
Strftime(dt) == Pad4(dt.y) \o <<"-">> \o Pad2(dt.m) \o <<"-">> \o Pad2(dt.d)

\* ------------------------------------------------------------ exceptions
NoExc == [type |-> "none"]
NoMsg == [text |-> "", url |-> <<>>, status |-> 0]
Exc(type, msg, cause) == [type |-> type, msg |-> msg, cause |-> cause]
AuthError(text) ==
    Exc("SmartSchoolAuthenticationError", [NoMsg EXCEPT !.text = text], NoExc)
\* an exception raised by requests: ConnectionError, Timeout, HTTPError
ConnectionError == Exc("ConnectionError", NoMsg, NoExc)
HTTPError(status, url) ==
    Exc("HTTPError", [NoMsg EXCEPT !.url = url, !.status = status], NoExc)

\* ------------------------------------------------------------ credentials
\* A credentials object: the attributes the loaders set, and mfa, which no
\* loader of credentials.py sets (Absent) but session.py reads.
Cred(kind, u, p, h, b, m) ==
    [kind |-> kind, username |-> u, password |-> p, main_url |-> h,
     birth_date |-> b, mfa |-> m]
\* Smartschool() without credentials (the module-level session)
NoCreds == [kind |-> "None"]

\* AppCredentials.__init__: the four arguments become the four attributes
AppCredentials(username, password, main_url, birth_date) ==
    Cred("App", username, password, main_url, birth_date, Absent)
\* EnvCredentials.__post_init__: os.getenv gives a string or None
EnvCredentials(env) ==
    Cred("Env", env.SMARTSCHOOL_USERNAME, env.SMARTSCHOOL_PASSWORD,
         env.SMARTSCHOOL_MAIN_URL, env.SMARTSCHOOL_BIRTH_DATE, Absent)
\* PathCredentials.__post_init__: cred_file.pop(key, None) of the YAML map;
\* an unquoted YAML date loads as a date value
PathCredentials(cred_file) ==
    Cred("Path", cred_file.username, cred_file.password, cred_file.main_url,
         cred_file.birth_date, Absent)
\* A caller-defined Credentials subclass that also carries an mfa attribute
CustomCredentials(birth_date, mfa) ==
    Cred("Custom", PyStr(U_NAME), PyStr(U_PASS), PyStr(HOST), birth_date, mfa)

RawCreds ==
    { AppCredentials(PyStr(U_NAME), PyStr(U_PASS), PyStr(HOST), PyStr(D_DASH)),
      AppCredentials(PyStr(BLANK), PyStr(U_PASS), None, PyStr(EMPTY)),
      EnvCredentials([SMARTSCHOOL_USERNAME |-> PyStr(U_NAME),
                      SMARTSCHOOL_PASSWORD |-> PyStr(U_PASS),
                      SMARTSCHOOL_MAIN_URL |-> PyStr(HOST),
                      SMARTSCHOOL_BIRTH_DATE |-> None]),
      PathCredentials([username |-> PyStr(U_NAME), password |-> PyStr(U_PASS),
                       main_url |-> PyStr(HOST),
                       birth_date |-> PyDate(2008, 5, 1)]),
      CustomCredentials(PyStr(D_PAD), PyStr(D_SLASH)),
      CustomCredentials(PyStr(D_DASH), PyStr(D_DASH)),
      CustomCredentials(PyStr(D_DASH), PyDate(2008, 5, 1)),
      CustomCredentials(PyStr(D_DASH), PyStr(TOTP_SECRET)),
      NoCreds }

RequiredFields == <<"username", "password", "main_url", "birth_date">>

\* (v or "").strip(): a falsy value becomes "", a string is stripped, and any
\* other truthy value has no strip() (AttributeError)
StripOrEmpty(v) == IF ~Truthy(v) THEN PyStr(EMPTY) ELSE PyStr(Strip(v.s))
CanStrip(v) == ~Truthy(v) \/ v.t = "str"

\* Stripped if validate() only tested the fields and did not store the
\* stripped values
Stripped_not_stored(c) == c

\* Credentials.validate: the stripped credentials and the list of blank fields
Stripped(c) ==
    [c EXCEPT !.username = StripOrEmpty(c.username),
              !.password = StripOrEmpty(c.password),
              !.main_url = StripOrEmpty(c.main_url),
              !.birth_date = StripOrEmpty(c.birth_date)]
ErrorList(c) ==
    SelectSeq(RequiredFields, LAMBDA f : ~Truthy(Stripped(c)[f]))
validate(c) ==
    IF \E i \in 1..4 : ~CanStrip(c[RequiredFields[i]])
    THEN [ok |-> FALSE, exc |-> Exc("AttributeError", NoMsg, NoExc),
          error |-> <<>>]
    ELSE IF ErrorList(c) # <<>>
    THEN [ok |-> FALSE,
          exc |-> Exc("RuntimeError",
                      [text |-> "Please verify and correct these attributes",
                       url |-> <<>>, status |-> 0, error |-> ErrorList(c)],
                      NoExc),
          error |-> ErrorList(c)]
    ELSE [ok |-> TRUE, creds |-> Stripped(c)]

\* ------------------------------------------------------------------- URLs
\* Smartschool._url
_url(c) == SCHEME \o c.main_url.s
\* Smartschool.create_url
create_url(c, endpoint) == _url(c) \o <<"/">> \o LStripChar(endpoint, "/")

\* ------------------------------------------------------ the portal's pages
Field(name, value) == [name |-> name, value |-> value]
\* fields the portal may put in a login form
LoginFieldPool ==
    { Field(F_USER, EMPTY), Field(F_PASS, EMPTY), Field(F_TOKEN, V_TOK),
      Field(F_BOTH, V_DEF) }
\* fields the portal may put in a verification form; the last has no name
VerifFieldPool ==
    { Field(F_SQA, EMPTY), Field(F_ALTSQA, V_DEF), Field(F_VTOKEN, V_TOK),
      Field(EMPTY, V_DEF) }
\* the forms of at most max inputs drawn from pool, each input at most once
FormsOver(pool, max) ==
    UNION { { f \in [1..n -> pool] : \A i, j \in 1..n : f[i] = f[j] => i = j } :
            n \in 0..max }

\* An HTML page: which form it holds and that form's input elements.
Page(form, inputs) == [form |-> form, inputs |-> inputs]
NoPage == Page("none", <<>>)
LoginPages == { Page("login_form", f) : f \in FormsOver(LoginFieldPool, MaxFields) }
\* a verification page whose form has no name attribute, only the token input
TokenFormPage ==
    Page("token_form", <<Field(F_VTOKEN, V_TOK), Field(F_SQA, EMPTY)>>)
VerifPages ==
    { Page("account_verification_form", f) :
        f \in FormsOver(VerifFieldPool, MaxVerifFields) } \cup {TokenFormPage}

\* The statuses the portal answers with; 400..599 make raise_for_status raise.
Statuses == {200, 204, 500}
\* The final URLs a request can land on after redirects.
FinalUrls(c) ==
    { create_url(c, P_ROOT), create_url(c, P_LOGIN), create_url(c, P_VERIF),
      create_url(c, P_2FA) }
\* The pages a response can carry; a body the code never reads is NoPage.
PagesAt(url, status, reads) ==
    IF status >= 400 THEN {NoPage}
    ELSE IF EndsWith(url, P_LOGIN) /\ "login" \in reads
    THEN LoginPages \cup {NoPage}
    ELSE IF EndsWith(url, P_VERIF) /\ "verification" \in reads
    THEN VerifPages \cup {NoPage}
    ELSE {NoPage}

Response(status, url, body) ==
    [fail |-> FALSE, status |-> status, url |-> url, body |-> body]
\* the request never produced a response (DNS, timeout, connection reset)
TransportFailure == [fail |-> TRUE]
\* everything the portal can answer to one request whose response the code
\* parses as the pages named in reads
Outcomes(c, reads) ==
    UNION { { Response(st, u, b) : b \in PagesAt(u, st, reads) } :
            st \in Statuses, u \in FinalUrls(c) }
        \cup {TransportFailure}
\* The portal's answers do not change from one request to the next: they are
\* tabulated once, by host and by what the code reads.
ReadSets == { {}, {"verification"}, {"login", "verification"} }
OutcomeTable ==
    { <<h, r, Outcomes([main_url |-> PyStr(h)], r)>> : h \in {HOST}, r \in ReadSets }
OutcomesOf(c, reads) ==
    (CHOOSE e \in OutcomeTable : e[1] = c.main_url.s /\ e[2] = reads)[3]
\* the same for a request whose response body the code never reads
OutcomesNoBody(c) == OutcomesOf(c, {})

\* What session.get/post followed by raise_for_status() raises on outcome o.
Raised(o) ==
    IF o.fail THEN ConnectionError
    ELSE IF o.status >= 400 THEN HTTPError(o.status, o.url)
    ELSE NoExc

\* -------------------------------------------------------- form extraction
\* Selectors used by session.py and the forms they match.
SEL_LOGIN == "form[name=\"login_form\"]"
SEL_VERIF == "form[name=\"account_verification_form\"]"
SEL_TOKEN == "form:has(input#account_verification_form__token)"
Matches(page, selector) ==
    CASE selector = SEL_LOGIN -> page.form = "login_form"
      [] selector = SEL_VERIF -> page.form = "account_verification_form"
      [] selector = SEL_TOKEN ->
            page.form \in {"account_verification_form", "token_form"}
      [] OTHER -> FALSE

ParsingError == Exc("SmartSchoolParsingError", NoMsg, NoExc)
\* common.get_all_values_from_form: the input elements of the first form the
\* selector matches, in document order; ParsingError when nothing matches.
get_all_values_from_form(html, selector) ==
    IF Matches(html, selector)
    THEN [ok |-> TRUE, inputs |-> html.inputs]
    ELSE [ok |-> FALSE, exc |-> ParsingError]

\* ------------------------------------------- get_form_inputs (the script)
\* Largest number of elements in a form given to get_form_inputs.
MaxElements == 3
\* An element of a form: its tag and its name and value attributes, Absent
\* when the element does not have the attribute.
Tag(tag, name, value) == [tag |-> tag, name |-> name, value |-> value]
ElementPool ==
    { Tag("input", PyStr(F_USER), PyStr(V_DEF)),
      Tag("input", PyStr(F_USER), PyStr(V_TOK)),
      Tag("input", PyStr(F_USER), Absent),
      Tag("select", PyStr(F_TOKEN), Absent),
      Tag("input", Absent, PyStr(V_DEF)),
      Tag("textarea", PyStr(EMPTY), PyStr(V_DEF)),
      Tag("button", PyStr(F_TOKEN), PyStr(V_DEF)) }
\* the documents: no form at all, or one form with up to MaxElements elements
Doc(form, elements) == [form |-> form, elements |-> elements]
Docs ==
    { Doc("none", <<>>) } \cup
    { Doc(f, els) : f \in {"login_form", "account_verification_form"},
                    els \in UNION { [1..n -> ElementPool] : n \in 0..MaxElements } }
PyList(items) == [t |-> "list", items |-> items]
PyDict(d) == [t |-> "dict", d |-> d]

\* ----------------------------------------------------------- Python dicts
\* A dict is a sequence of <<key, value>> pairs in insertion order.
HasKey(d, k) == \E i \in 1..Len(d) : d[i][1] = k
Lookup(d, k) == d[CHOOSE i \in 1..Len(d) : d[i][1] = k][2]
\* d[k] = v
DictSet(d, k, v) ==
    IF HasKey(d, k)
    THEN [i \in 1..Len(d) |-> IF d[i][1] = k THEN <<k, v>> ELSE d[i]]
    ELSE Append(d, <<k, v>>)

\* get_form_inputs if a repeated name overwrote the value recorded before
RECURSIVE get_form_inputs_loop_overwriting(_, _)
get_form_inputs_loop_overwriting(tags, inputs) ==
    IF tags = <<>> THEN inputs
    ELSE LET input_tag == Head(tags)
             name == IF input_tag.name = Absent THEN None ELSE input_tag.name
             value == IF input_tag.value = Absent THEN PyStr(EMPTY)
                      ELSE input_tag.value
         IN get_form_inputs_loop_overwriting(Tail(tags),
              IF input_tag.tag \notin {"input", "select", "textarea"} THEN inputs
              ELSE IF ~Truthy(name) THEN inputs
              ELSE DictSet(inputs, name.s, value))

\* get_form_inputs (debugging_auth.py 54-67): the loop over
\* form.find_all(['input', 'select', 'textarea'])
RECURSIVE get_form_inputs_loop(_, _)
get_form_inputs_loop(tags, inputs) ==
    IF tags = <<>> THEN inputs
    ELSE LET input_tag == Head(tags)
             name == IF input_tag.name = Absent THEN None ELSE input_tag.name
             value == IF input_tag.value = Absent THEN PyStr(EMPTY)
                      ELSE input_tag.value
         IN get_form_inputs_loop(Tail(tags),
              IF input_tag.tag \notin {"input", "select", "textarea"} THEN inputs
              ELSE IF ~Truthy(name) THEN inputs
              ELSE IF HasKey(inputs, name.s)
              THEN IF Lookup(inputs, name.s).t = "list"
                   THEN DictSet(inputs, name.s,
                                PyList(Append(Lookup(inputs, name.s).items, value)))
                   ELSE DictSet(inputs, name.s,
                                PyList(<<Lookup(inputs, name.s), value>>))
              ELSE DictSet(inputs, name.s, value))
\* get_form_inputs (debugging_auth.py 46-69): None when the selector matches
\* no form, else the dict of the form's inputs
get_form_inputs(html, selector) ==
    IF ~Matches(html, selector) THEN None
    ELSE PyDict(get_form_inputs_loop(html.elements, <<>>))

\* ------------------------------------------------- the handlers' data
\* login_data without the else branch: only the username and password fields
\* would be posted
RECURSIVE login_data_without_else(_, _, _)
login_data_without_else(inputs, c, acc) ==
    IF inputs = <<>> THEN acc
    ELSE LET input_name == Head(inputs).name
         IN login_data_without_else(Tail(inputs), c,
              IF input_name = <<>> THEN acc
              ELSE IF Contains(input_name, S_username)
              THEN [acc EXCEPT !.data = DictSet(@, input_name, c.username),
                               !.username_field_found = TRUE]
              ELSE IF Contains(input_name, S_password)
              THEN [acc EXCEPT !.data = DictSet(@, input_name, c.password),
                               !.password_field_found = TRUE]
              ELSE acc)

\* login_data with the two substring tests in the other order: a name holding
\* both substrings would count as the password field
RECURSIVE login_data_password_first(_, _, _)
login_data_password_first(inputs, c, acc) ==
    IF inputs = <<>> THEN acc
    ELSE LET input_name == Head(inputs).name
             input_value == Head(inputs).value
         IN login_data_password_first(Tail(inputs), c,
              IF input_name = <<>> THEN acc
              ELSE IF Contains(input_name, S_password)
              THEN [acc EXCEPT !.data = DictSet(@, input_name, c.password),
                               !.password_field_found = TRUE]
              ELSE IF Contains(input_name, S_username)
              THEN [acc EXCEPT !.data = DictSet(@, input_name, c.username),
                               !.username_field_found = TRUE]
              ELSE [acc EXCEPT !.data = DictSet(@, input_name, PyStr(input_value))])

\* _do_login (session.py 256-272): the POST data built from the form inputs
RECURSIVE login_data(_, _, _)
login_data(inputs, c, acc) ==
    IF inputs = <<>> THEN acc
    ELSE LET input_name == Head(inputs).name
             input_value == Head(inputs).value
         IN login_data(Tail(inputs), c,
              IF input_name = <<>> THEN acc
              ELSE IF Contains(input_name, S_username)
              THEN [acc EXCEPT !.data = DictSet(@, input_name, c.username),
                               !.username_field_found = TRUE]
              ELSE IF Contains(input_name, S_password)
              THEN [acc EXCEPT !.data = DictSet(@, input_name, c.password),
                               !.password_field_found = TRUE]
              ELSE [acc EXCEPT !.data = DictSet(@, input_name, PyStr(input_value))])
NoLoginData ==
    [data |-> <<>>, username_field_found |-> FALSE,
     password_field_found |-> FALSE]

\* verification_fields if the loop stopped at the security question field:
\* the fields after it would not be copied
RECURSIVE verification_fields_break(_, _)
verification_fields_break(inputs, acc) ==
    IF inputs = <<>> THEN acc
    ELSE LET input_name == Head(inputs).name
             input_value == Head(inputs).value
         IN IF input_name # <<>> /\ Contains(input_name, S_sqa)
            THEN [acc EXCEPT !.security_question_field = input_name]
            ELSE verification_fields_break(Tail(inputs),
                   IF input_name = <<>> THEN acc
                   ELSE [acc EXCEPT !.verification_data =
                                    DictSet(@, input_name, PyStr(input_value))])

\* verification_fields if the first security question field were kept: a
\* later one would not replace it
RECURSIVE verification_fields_keeping_first(_, _)
verification_fields_keeping_first(inputs, acc) ==
    IF inputs = <<>> THEN acc
    ELSE LET input_name == Head(inputs).name
             input_value == Head(inputs).value
         IN verification_fields_keeping_first(Tail(inputs),
              IF input_name = <<>> THEN acc
              ELSE IF Contains(input_name, S_sqa)
              THEN IF acc.security_question_field = <<>>
                   THEN [acc EXCEPT !.security_question_field = input_name]
                   ELSE acc
              ELSE [acc EXCEPT !.verification_data =
                               DictSet(@, input_name, PyStr(input_value))])

\* _complete_verification (session.py 319-329): the fields copied into the
\* POST data, and the name of the security question field
RECURSIVE verification_fields(_, _)
verification_fields(inputs, acc) ==
    IF inputs = <<>> THEN acc
    ELSE LET input_name == Head(inputs).name
             input_value == Head(inputs).value
         IN verification_fields(Tail(inputs),
              IF input_name = <<>> THEN acc
              ELSE IF Contains(input_name, S_sqa)
              THEN [acc EXCEPT !.security_question_field = input_name]
              ELSE [acc EXCEPT !.verification_data =
                                    DictSet(@, input_name, PyStr(input_value))])
NoVerificationFields ==
    [verification_data |-> <<>>, security_question_field |-> <<>>]

\* birth_date_str without the replacement of slashes in a string secret
birth_date_str_as_is(mfa) ==
    IF mfa.t = "date" THEN PyStr(Strftime(mfa)) ELSE mfa

\* _complete_verification (session.py 338-348): the answer made of creds.mfa
birth_date_str(mfa) ==
    IF mfa.t = "date" THEN PyStr(Strftime(mfa))
    ELSE IF mfa.t = "str" THEN PyStr(Replace(mfa.s, "/", "-"))
    ELSE mfa

\* _complete_verification (session.py 313-316): primary selector, then the
\* fallback selector when the primary gave no inputs
verification_inputs(html) ==
    LET first == get_all_values_from_form(html, SEL_VERIF) IN
    IF ~first.ok THEN first
    ELSE IF first.inputs # <<>> THEN first
    ELSE get_all_values_from_form(html, SEL_TOKEN)

\* ------------------------------------------------------------------- 2FA
G2FA == <<"g","o","o","g","l","e","2","f","a">>  \* "google2fa"
\* what GET /2fa/api/v1/config can carry as its body
ConfigBodies ==
    { [k |-> "invalid"],
      [k |-> "object", haskey |-> FALSE, mechs |-> <<>>],
      [k |-> "object", haskey |-> TRUE, mechs |-> <<"sms">>],
      [k |-> "object", haskey |-> TRUE, mechs |-> <<"googleAuthenticator">>],
      [k |-> "object", haskey |-> TRUE,
       mechs |-> <<"sms", "googleAuthenticator">>] }
\* the mechanism test if any listed mechanism were accepted
supports_any_mechanism(config) == config.mechs # <<>>

\* 'googleAuthenticator' in config.get('possibleAuthenticationMechanisms', [])
\* (session.py 378)
supports_googleAuthenticator(config) ==
    \E i \in 1..Len(config.mechs) : config.mechs[i] = "googleAuthenticator"

ConfigOutcomes(c) ==
    { Response(st, create_url(c, P_2FA_CONFIG), b) :
        st \in Statuses, b \in ConfigBodies } \cup {TransportFailure}

\* the characters base64.b32decode(casefold=True) accepts
Base32Chars ==
    { "A","B","C","D","E","F","G","H","I","J","K","L","M","N","O","P","Q","R",
      "S","T","U","V","W","X","Y","Z","a","b","c","d","e","f","g","h","i","j",
      "k","l","m","n","o","p","q","r","s","t","u","v","w","x","y","z",
      "2","3","4","5","6","7","=" }
\* pyotp.TOTP(creds.mfa).now(): a code for a base32 string secret, an
\* exception for anything else
totp_now(mfa) ==
    IF mfa.t = "absent"
    THEN [ok |-> FALSE, exc |-> Exc("AttributeError", NoMsg, NoExc)]
    ELSE IF mfa.t # "str"
    THEN [ok |-> FALSE, exc |-> Exc("TypeError", NoMsg, NoExc)]
    ELSE IF \E i \in 1..Len(mfa.s) : mfa.s[i] \notin Base32Chars
    THEN [ok |-> FALSE, exc |-> Exc("binascii.Error", NoMsg, NoExc)]
    ELSE [ok |-> TRUE, code |-> [t |-> "totp", secret |-> mfa.s]]

\* ------------------------------------------------------------------ json()
\* Nesting depth of JSON strings in a response text.
JsonDepth == 2
JEmpty == [k |-> "empty"]
JInvalid == [k |-> "invalid"]
\* the text that is the JSON encoding of value v
JEnc(v) == [k |-> "enc", v |-> v]
JObj == [k |-> "obj"]
JStr(text) == [k |-> "str", text |-> text]
EmptyDict == [k |-> "emptydict"]
RECURSIVE Texts(_)
Texts(d) ==
    IF d = 0 THEN {JEmpty, JInvalid, JEnc(JObj)}
    ELSE Texts(d - 1) \cup { JEnc(JStr(t)) : t \in Texts(d - 1) }

\* json_decode if the text were decoded once only
json_decode_once(json_) ==
    IF json_.k = "empty" THEN [ok |-> TRUE, value |-> EmptyDict]
    ELSE IF json_.k = "invalid"
    THEN [ok |-> FALSE, exc |-> Exc("JSONDecodeError", NoMsg, NoExc)]
    ELSE [ok |-> TRUE, value |-> json_.v]

\* Smartschool.json (session.py 435-456): decode while the value is a string
RECURSIVE json_decode(_)
json_decode(json_) ==
    IF json_.k = "empty" THEN [ok |-> TRUE, value |-> EmptyDict]
    ELSE IF json_.k = "invalid"
    THEN [ok |-> FALSE, exc |-> Exc("JSONDecodeError", NoMsg, NoExc)]
    ELSE IF json_.v.k = "str" THEN json_decode(json_.v.text)
    ELSE [ok |-> TRUE, value |-> json_.v]

\* ------------------------------------------------------- error handling
\* Wrap that wraps every exception, a SmartSchoolAuthenticationError too
Wrap_every(e) ==
    Exc("SmartSchoolAuthenticationError",
        [text |-> "An unexpected error occurred during authentication",
         url |-> e.msg.url, status |-> e.msg.status],
        [type |-> e.type, msg |-> e.msg])

\* except Exception as e (session.py 210-216): anything that is not already a
\* SmartSchoolAuthenticationError is wrapped in one, with e as its cause; the
\* new message ends with str(e), which for an HTTPError names status and URL
Wrap(e) ==
    IF e.type = "SmartSchoolAuthenticationError" THEN e
    ELSE Exc("SmartSchoolAuthenticationError",
             [text |-> "An unexpected error occurred during authentication",
              url |-> e.msg.url, status |-> e.msg.status],
             [type |-> e.type, msg |-> e.msg])

\* gateway_raise if json() made its request inside its try block: the error
\* would be logged and replaced by a decode error
gateway_raise_json_masks(kind, e) ==
    IF kind \in {"json_get", "json_post"}
    THEN Exc("JSONDecodeError", NoMsg, NoExc) ELSE e

\* What the caller of get/post/json sees when _try_login raised e: inner has
\* no try block, and json() calls self.get / self.post outside its own
gateway_raise(kind, e) == e

\* session_is_valid that never trusts the probe
session_is_valid_never(o) == FALSE

\* _try_login, step 1 (session.py 126-145): does the probe's outcome show a
\* valid session
session_is_valid(o) ==
    IF Raised(o) # NoExc THEN FALSE
    ELSE IF EndsWithAuth(o.url) THEN FALSE
    ELSE o.status = 200

\* -------------------------------------------------------------- file_fetch
\* except Exception as e: raise SmartSchoolException(...) from e
\* (file_fetch.py 155-156 and 224-231): whatever is raised inside the try
\* block of browse_course_documents or download_document reaches their caller
\* as a SmartSchoolException with e as its cause
fetch_raise(f, e) ==
    IF f.op \in {"browse", "download"}
    THEN Exc("SmartSchoolException",
             [text |-> IF f.op = "browse" THEN "Failed to browse documents"
                       ELSE "Failed to download document",
              url |-> e.msg.url, status |-> e.msg.status],
             [type |-> e.type, msg |-> e.msg])
    ELSE e
\* what the file system can hold at target_path; locked_file is a file that
\* can be written but whose unlink raises OSError
TargetStates == {"no_parent", "dir", "absent", "old_file", "locked_file"}
\* target_filepath.exists()
exists(t) ==
    t \in {"dir", "old_file", "partial_file", "new_file", "locked_file"}
\* cleanup if only a partly written file were removed
cleanup_partial_only(t) == IF t = "partial_file" THEN "absent" ELSE t
\* if target_filepath.exists(): target_filepath.unlink(), and an OSError of
\* unlink is only logged (file_fetch.py 226-230); a directory never gets this
\* far (file_fetch.py 198-200)
cleanup(t) ==
    IF t = "locked_file" THEN t
    ELSE IF exists(t) THEN "absent"
    ELSE t

\* ------------------------------------------------------------------ state
VARIABLES
    creds,      \* the credentials the Session holds (NoCreds for None)
    pc,         \* where the program is: idle, or waiting for a response
    call,       \* the gateway call in progress: kind and path
    sent,       \* the requests of the current call, in the order sent
    wire,       \* the request now in flight, with its form data
    page,       \* the page the form data of the request in flight came from
    last,       \* status and final URL of the response to _try_login's last
                \* request (NoLast when the request got no response)
    auth,       \* how _try_login ended in the current call
    raised,     \* the exception that reached the caller, if any
    result,     \* what the call returned to the caller
    resp,       \* the response to the caller's own request (NoResp when none)
    fetch,      \* the file_fetch function in progress, with its arguments
    target,     \* what the file system holds at download_document's target
    html_content,   \* the document given to get_form_inputs
    form_selector,  \* the selector given to get_form_inputs
    page_nr,    \* Results.__iter__: the page number of count(start=1)
    json,       \* Results.__iter__: the page being yielded from
    yielded,    \* the items the Results iterator has yielded, in order
    requested,  \* the page numbers the Results iterator has asked for
    fetched,    \* the number of items of each page it has downloaded
    threads,    \* for each thread, where its call on the shared Session is
    jar         \* whether the cookie jar holds a session the portal accepts
\* results.py 11
RESULTS_PER_PAGE == 50
\* the threads that share one Session
Threads == {1, 2}
form_vars == <<html_content, form_selector>>
results_vars == <<page_nr, json, yielded, requested, fetched>>
thread_vars == <<threads, jar>>
\* what the Session's own methods never touch in a single-threaded caller
rest_vars == <<form_vars, thread_vars>>
\* no page is held: the iterator has not started, or waits for a page
NoJson == [k |-> "none"]
\* no Results iterator is running
NoResults ==
    /\ page_nr = 0
    /\ json = NoJson
    /\ yielded = <<>>
    /\ requested = <<>>
    /\ fetched = <<>>
\* a thread that has no call on the Session in progress
IdleThread(n) ==
    [pc |-> "idle", sent |-> <<>>, calls |-> n, overlapped |-> FALSE,
     began |-> "anonymous"]
\* no thread has called the Session
NoThreads ==
    /\ threads = [t \in Threads |-> IdleThread(0)]
    /\ jar = "anonymous"
vars == <<creds, pc, call, sent, wire, page, last, auth, raised, result, resp,
          fetch, target, html_content, form_selector, page_nr, json, yielded,
          requested, fetched, threads, jar>>

NoCall == [kind |-> "none", path |-> <<>>]
NoResult == [k |-> "none"]
NoLast == [status |-> 0, url |-> <<>>]
Req(by, method, url, data) ==
    [by |-> by, method |-> method, url |-> url, data |-> data]
NoReq == [by |-> "none"]
NoResp == [status |-> 0, url |-> <<>>, text |-> [k |-> "none"]]
NoFetch == [op |-> "none"]
NoDoc == [form |-> "none", elements |-> <<>>]
\* what the log keeps of a request
Logged(by, method, url) == [by |-> by, method |-> method, url |-> url]

Init ==
    /\ creds \in RawCreds
    /\ pc = "new"
    /\ call = NoCall
    /\ sent = <<>>
    /\ wire = NoReq
    /\ page = NoPage
    /\ last = NoLast
    /\ auth = "Unknown"
    /\ raised = NoExc
    /\ result = NoResult
    /\ resp = NoResp
    /\ fetch = NoFetch
    /\ target = "absent"
    /\ html_content = NoDoc
    /\ form_selector = ""
    /\ NoResults
    /\ NoThreads

\* Smartschool.__post_init__: validate the credentials when there are any
post_init ==
    /\ pc = "new"
    /\ IF creds = NoCreds
       THEN pc' = "idle" /\ UNCHANGED <<creds, raised>>
       ELSE LET v == validate(creds) IN
            IF v.ok
            THEN pc' = "idle" /\ creds' = v.creds /\ UNCHANGED raised
            ELSE pc' = "construction_failed" /\ raised' = v.exc
                 /\ UNCHANGED creds
    /\ UNCHANGED <<call, sent, wire, page, last, auth, result, resp, fetch,
                   target, rest_vars, results_vars>>

CallKinds == {"get", "post", "json_get", "json_post"}
CallPaths == {P_API}

\* session.get / session.post is called: the request goes on the wire and the
\* program waits for its response at position p
Send(by, method, url, data, html, p) ==
    /\ pc' = p
    /\ page' = html
    /\ sent' = Append(sent, Logged(by, method, url))
    /\ wire' = Req(by, method, url, data)

\* _try_login sends a request of its own and waits at p
SendAuth(method, url, data, html, p) ==
    /\ Send("auth", method, url, data, html, p)
    /\ UNCHANGED <<creds, call, auth, raised, result, resp, fetch, target,
                   rest_vars, results_vars>>

\* _try_login raises e out of its second try block, which ends the call
AuthFails(e) ==
    /\ pc' = "idle"
    /\ auth' = "Failed"
    /\ wire' = NoReq
    /\ page' = NoPage
    /\ raised' = fetch_raise(fetch, gateway_raise(call.kind, Wrap(e)))
    /\ target' = IF fetch.op = "download" THEN cleanup(target) ELSE target
    /\ UNCHANGED <<creds, call, sent, result, resp, fetch, rest_vars, results_vars>>

\* _try_login returns; inner goes on to func (session.py 42), the wrapped
\* get/post (session.py 460-464), which sends the caller's own request
AuthReturns ==
    /\ auth' = "Authenticated"
    /\ Send("caller",
            IF call.kind \in {"post", "json_post"} THEN "POST" ELSE "GET",
            create_url(creds, call.path), <<>>, NoPage, "wait_func")
    /\ UNCHANGED <<creds, call, raised, result, resp, fetch, target, rest_vars, results_vars>>

Seen(o) == [status |-> o.status, url |-> o.url]
\* the same for check_resp, with the body json.loads reads (session.py 377)
SeenConfig(o) == [status |-> o.status, url |-> o.url, config |-> o.body]

\* inner without the call of _try_login: the request goes out right away
inner_without_login(kind, path) ==
    /\ pc = "idle"
    /\ call' = [kind |-> kind, path |-> path]
    /\ last' = NoLast
    /\ result' = NoResult
    /\ auth' = "Unknown"
    /\ IF creds = NoCreds
       THEN /\ raised' = Exc("RuntimeError", NoMsg, NoExc)
            /\ pc' = "idle" /\ sent' = <<>> /\ wire' = NoReq /\ page' = NoPage
       ELSE /\ raised' = NoExc
            /\ sent' = <<Logged("caller", "GET", create_url(creds, path))>>
            /\ wire' = Req("caller", "GET", create_url(creds, path), <<>>)
            /\ page' = NoPage
            /\ pc' = "wait_func"
    /\ resp' = NoResp
    /\ UNCHANGED <<creds, rest_vars>>

\* inner if the outcome of the last call were remembered: no probe after a
\* success, no new attempt after a failure
inner_remembering(kind, path) ==
    /\ pc = "idle"
    /\ call' = [kind |-> kind, path |-> path]
    /\ result' = NoResult
    /\ IF creds = NoCreds
       THEN /\ raised' = Exc("RuntimeError", NoMsg, NoExc)
            /\ pc' = "idle" /\ sent' = <<>> /\ wire' = NoReq /\ page' = NoPage
            /\ last' = NoLast /\ auth' = "Unknown"
       ELSE IF auth = "Authenticated"
       THEN /\ raised' = NoExc
            /\ sent' = <<Logged("caller", "GET", create_url(creds, path))>>
            /\ wire' = Req("caller", "GET", create_url(creds, path), <<>>)
            /\ page' = NoPage
            /\ pc' = "wait_func"
            /\ UNCHANGED <<last, auth>>
       ELSE IF auth = "Failed"
       THEN /\ pc' = "idle" /\ sent' = <<>> /\ wire' = NoReq /\ page' = NoPage
            /\ UNCHANGED <<last, auth, raised>>
       ELSE /\ raised' = NoExc
            /\ sent' = <<Logged("auth", "GET", create_url(creds, P_ROOT))>>
            /\ wire' = Req("auth", "GET", create_url(creds, P_ROOT), <<>>)
            /\ page' = NoPage
            /\ pc' = "wait_probe"
            /\ last' = NoLast /\ auth' = "Unknown"
    /\ resp' = NoResp
    /\ UNCHANGED <<creds, rest_vars>>

\* inner without the test of self.creds (session.py 36-37): _try_login would
\* read self.creds.main_url of None
inner_unchecked(kind, path) ==
    /\ pc = "idle"
    /\ call' = [kind |-> kind, path |-> path]
    /\ last' = NoLast
    /\ result' = NoResult
    /\ auth' = "Unknown"
    /\ IF creds = NoCreds
       THEN /\ raised' = Exc("AttributeError", NoMsg, NoExc)
            /\ pc' = "idle" /\ sent' = <<>> /\ wire' = NoReq /\ page' = NoPage
       ELSE /\ raised' = NoExc
            /\ sent' = <<Logged("auth", "GET", create_url(creds, P_ROOT))>>
            /\ wire' = Req("auth", "GET", create_url(creds, P_ROOT), <<>>)
            /\ page' = NoPage
            /\ pc' = "wait_probe"
    /\ resp' = NoResp
    /\ UNCHANGED <<creds, rest_vars>>

\* _handle_cookies_and_login.inner (session.py 36-40) up to the probe GET / of
\* _try_login (session.py 125); json() enters here through self.get/self.post
inner(kind, path) ==
    /\ pc = "idle"
    /\ call' = [kind |-> kind, path |-> path]
    /\ last' = NoLast
    /\ result' = NoResult
    /\ auth' = "Unknown"
    /\ IF creds = NoCreds
       THEN /\ raised' = Exc("RuntimeError", NoMsg, NoExc)
            /\ pc' = "idle" /\ sent' = <<>> /\ wire' = NoReq /\ page' = NoPage
       ELSE /\ raised' = NoExc
            /\ sent' = <<Logged("auth", "GET", create_url(creds, P_ROOT))>>
            /\ wire' = Req("auth", "GET", create_url(creds, P_ROOT), <<>>)
            /\ page' = NoPage
            /\ pc' = "wait_probe"
    /\ resp' = NoResp
    /\ UNCHANGED <<creds, rest_vars>>

\* do_login_form without the test of the two found flags: the POST would be
\* sent with whatever fields the form had
do_login_form_unchecked(o) ==
    LET ext == get_all_values_from_form(o.body, SEL_LOGIN) IN
    IF ~ext.ok THEN AuthFails(ext.exc)
    ELSE IF ext.inputs = <<>>
    THEN AuthFails(AuthError("Could not find login form inputs."))
    ELSE LET ld == login_data(ext.inputs, creds, NoLoginData) IN
         SendAuth("POST", o.url, ld.data, o.body, "wait_login_post")

\* _do_login up to its POST (session.py 244-285), on the login page o
do_login_form(o) ==
    LET ext == get_all_values_from_form(o.body, SEL_LOGIN) IN
    IF ~ext.ok THEN AuthFails(ext.exc)
    ELSE IF ext.inputs = <<>>
    THEN AuthFails(AuthError("Could not find login form inputs."))
    ELSE LET ld == login_data(ext.inputs, creds, NoLoginData) IN
         IF ~ld.username_field_found \/ ~ld.password_field_found
         THEN AuthFails(AuthError("Login form parsing failed: Missing username or password field."))
         ELSE SendAuth("POST", o.url, ld.data, o.body, "wait_login_post")

\* complete_verification_form if the formatted answer were written back to
\* the credentials (self.creds.mfa = birth_date_str)
complete_verification_form_storing(o) ==
    LET ext == verification_inputs(o.body) IN
    IF ~ext.ok THEN AuthFails(ext.exc)
    ELSE IF ext.inputs = <<>>
    THEN AuthFails(AuthError("Could not find verification form fields"))
    ELSE LET vf == verification_fields(ext.inputs, NoVerificationFields) IN
         IF vf.security_question_field = <<>>
         THEN AuthFails(AuthError("Could not find security question field in verification form"))
         ELSE IF ~Truthy(creds.mfa)
         THEN AuthFails(AuthError("Birth date is required for verification but not provided in credentials"))
         ELSE /\ Send("auth", "POST", o.url,
                      DictSet(vf.verification_data, vf.security_question_field,
                              birth_date_str(creds.mfa)),
                      o.body, "wait_verification_post")
              /\ creds' = [creds EXCEPT !.mfa = birth_date_str(creds.mfa)]
              /\ UNCHANGED <<call, auth, raised, result, resp, fetch, target,
                             rest_vars, results_vars>>

\* complete_verification_form without the test of security_question_field:
\* the other fields would be posted without an answer
complete_verification_form_unchecked(o) ==
    LET ext == verification_inputs(o.body) IN
    IF ~ext.ok THEN AuthFails(ext.exc)
    ELSE IF ext.inputs = <<>>
    THEN AuthFails(AuthError("Could not find verification form fields"))
    ELSE LET vf == verification_fields(ext.inputs, NoVerificationFields) IN
         IF ~Truthy(creds.mfa)
         THEN AuthFails(AuthError("Birth date is required for verification but not provided in credentials"))
         ELSE SendAuth("POST", o.url,
                       IF vf.security_question_field = <<>>
                       THEN vf.verification_data
                       ELSE DictSet(vf.verification_data,
                                    vf.security_question_field,
                                    birth_date_str(creds.mfa)),
                       o.body, "wait_verification_post")

\* _complete_verification up to its POST (session.py 302-357), on the
\* verification page o
complete_verification_form(o) ==
    LET ext == verification_inputs(o.body) IN
    IF ~ext.ok THEN AuthFails(ext.exc)
    ELSE IF ext.inputs = <<>>
    THEN AuthFails(AuthError("Could not find verification form fields"))
    ELSE LET vf == verification_fields(ext.inputs, NoVerificationFields) IN
         IF vf.security_question_field = <<>>
         THEN AuthFails(AuthError("Could not find security question field in verification form"))
         ELSE IF ~Truthy(creds.mfa)
         THEN AuthFails(AuthError("Birth date is required for verification but not provided in credentials"))
         ELSE SendAuth("POST", o.url,
                       DictSet(vf.verification_data, vf.security_question_field,
                               birth_date_str(creds.mfa)),
                       o.body, "wait_verification_post")

\* _complete_verification_2fa up to its GET of the configuration
\* (session.py 366-374)
complete_verification_2fa_start ==
    SendAuth("GET", create_url(creds, P_2FA_CONFIG), <<>>, NoPage,
             "wait_2fa_config")

\* final_decision without the test of the final URL: only the status decides
final_decision_by_status(final_resp) ==
    IF final_resp.status # 200
    THEN AuthFails(Exc("SmartSchoolAuthenticationError",
                       [text |-> "Authentication failed, status",
                        url |-> final_resp.url,
                        status |-> final_resp.status], NoExc))
    ELSE AuthReturns

\* _try_login, step 3 (session.py 176-186): the decision on final_resp
final_decision(final_resp) ==
    IF EndsWithAuth(final_resp.url)
    THEN AuthFails(Exc("SmartSchoolAuthenticationError",
                       [text |-> "Authentication failed, ended on",
                        url |-> final_resp.url, status |-> 0], NoExc))
    ELSE IF final_resp.status # 200
    THEN AuthFails(Exc("SmartSchoolAuthenticationError",
                       [text |-> "Authentication failed, status",
                        url |-> final_resp.url,
                        status |-> final_resp.status], NoExc))
    ELSE AuthReturns

\* try_login_probe without the except clause of session.py 144-146: a failed
\* probe would fail the call
try_login_probe_raising ==
    /\ pc = "wait_probe"
    /\ \E o \in OutcomesNoBody(creds) :
         /\ last' = IF o.fail THEN NoLast ELSE Seen(o)
         /\ IF Raised(o) # NoExc THEN AuthFails(Raised(o))
            ELSE IF session_is_valid(o)
            THEN AuthReturns
            ELSE SendAuth("GET", create_url(creds, P_LOGIN), <<>>, NoPage,
                          "wait_login_get")

\* _try_login, step 1 (session.py 125-152): the response to the probe GET /,
\* then either the return or GET /login
try_login_probe ==
    /\ pc = "wait_probe"
    /\ \E o \in OutcomesNoBody(creds) :
         /\ last' = IF o.fail THEN NoLast ELSE Seen(o)
         /\ IF session_is_valid(o)
            THEN AuthReturns
            ELSE SendAuth("GET", create_url(creds, P_LOGIN), <<>>, NoPage,
                          "wait_login_get")

\* try_login_login_get with the two challenge branches exchanged
try_login_login_get_swapped ==
    /\ pc = "wait_login_get"
    /\ \E o \in OutcomesOf(creds, {"login", "verification"}) :
         /\ last' = IF o.fail THEN NoLast ELSE Seen(o)
         /\ IF Raised(o) # NoExc THEN AuthFails(Raised(o))
            ELSE IF EndsWith(o.url, P_LOGIN) THEN do_login_form(o)
            ELSE IF EndsWith(o.url, P_2FA) THEN complete_verification_form(o)
            ELSE IF EndsWith(o.url, P_VERIF) THEN complete_verification_2fa_start
            ELSE AuthReturns

\* _try_login, step 2 (session.py 152-174): the response to GET /login and the
\* branch on its final URL
try_login_login_get ==
    /\ pc = "wait_login_get"
    /\ \E o \in OutcomesOf(creds, {"login", "verification"}) :
         /\ last' = IF o.fail THEN NoLast ELSE Seen(o)
         /\ IF Raised(o) # NoExc THEN AuthFails(Raised(o))
            ELSE IF EndsWith(o.url, P_LOGIN) THEN do_login_form(o)
            ELSE IF EndsWith(o.url, P_VERIF) THEN complete_verification_form(o)
            ELSE IF EndsWith(o.url, P_2FA) THEN complete_verification_2fa_start
            ELSE AuthReturns

\* the longest log a retrying variant may build
MaxRetrySent == 8
\* do_login_post if a POST that lands on /login again were sent once more
do_login_post_retrying ==
    /\ pc = "wait_login_post"
    /\ \E o \in OutcomesOf(creds, {"verification"}) :
         /\ last' = IF o.fail THEN NoLast ELSE Seen(o)
         /\ IF Raised(o) # NoExc THEN AuthFails(Raised(o))
            ELSE IF EndsWith(o.url, P_LOGIN) /\ Len(sent) < MaxRetrySent
            THEN SendAuth(wire.method, wire.url, wire.data, page,
                          "wait_login_post")
            ELSE IF EndsWith(o.url, P_VERIF) THEN complete_verification_form(o)
            ELSE IF EndsWith(o.url, P_2FA) THEN complete_verification_2fa_start
            ELSE final_decision(o)

\* _do_login from the response to its POST (session.py 285-300), and what
\* _try_login does with the response it returns
do_login_post ==
    /\ pc = "wait_login_post"
    /\ \E o \in OutcomesOf(creds, {"verification"}) :
         /\ last' = IF o.fail THEN NoLast ELSE Seen(o)
         /\ IF Raised(o) # NoExc THEN AuthFails(Raised(o))
            ELSE IF EndsWith(o.url, P_VERIF) THEN complete_verification_form(o)
            ELSE IF EndsWith(o.url, P_2FA) THEN complete_verification_2fa_start
            ELSE final_decision(o)

\* complete_verification_post if a POST that lands on /account-verification
\* again were sent once more
complete_verification_post_retrying ==
    /\ pc = "wait_verification_post"
    /\ \E o \in OutcomesNoBody(creds) :
         /\ last' = IF o.fail THEN NoLast ELSE Seen(o)
         /\ IF Raised(o) # NoExc THEN AuthFails(Raised(o))
            ELSE IF EndsWith(o.url, P_VERIF) /\ Len(sent) < MaxRetrySent
            THEN SendAuth(wire.method, wire.url, wire.data, page,
                          "wait_verification_post")
            ELSE final_decision(o)

\* complete_verification_post if a verification POST that ends on /2fa went on
\* to the 2FA handler
complete_verification_post_chaining ==
    /\ pc = "wait_verification_post"
    /\ \E o \in OutcomesNoBody(creds) :
         /\ last' = IF o.fail THEN NoLast ELSE Seen(o)
         /\ IF Raised(o) # NoExc THEN AuthFails(Raised(o))
            ELSE IF EndsWith(o.url, P_2FA) THEN complete_verification_2fa_start
            ELSE final_decision(o)

\* _complete_verification from the response to its POST (session.py 357-362),
\* and what _try_login does with the response it returns
complete_verification_post ==
    /\ pc = "wait_verification_post"
    /\ \E o \in OutcomesNoBody(creds) :
         /\ last' = IF o.fail THEN NoLast ELSE Seen(o)
         /\ IF Raised(o) # NoExc THEN AuthFails(Raised(o))
            ELSE final_decision(o)

\* _complete_verification_2fa from the response to the configuration GET to
\* the POST of the code (session.py 374-389)
complete_verification_2fa_config ==
    /\ pc = "wait_2fa_config"
    /\ \E check_resp \in ConfigOutcomes(creds) :
         /\ last' = IF check_resp.fail THEN NoLast ELSE SeenConfig(check_resp)
         /\ IF Raised(check_resp) # NoExc THEN AuthFails(Raised(check_resp))
            ELSE IF check_resp.status # 200
            THEN AuthFails(AuthError("Could not find supported 2fa API endpoint"))
            ELSE IF check_resp.body.k = "invalid"
            THEN AuthFails(Exc("JSONDecodeError", NoMsg, NoExc))
            ELSE IF ~supports_googleAuthenticator(check_resp.body)
            THEN AuthFails(AuthError("Could not find supported 2fa verification method, only googleAuthenticator is supported"))
            ELSE IF ~totp_now(creds.mfa).ok
            THEN AuthFails(totp_now(creds.mfa).exc)
            ELSE SendAuth("POST", create_url(creds, P_2FA_GA),
                          << <<G2FA, totp_now(creds.mfa).code>> >>, NoPage,
                          "wait_2fa_post")

\* complete_verification_2fa_post if any response that raise_for_status lets
\* through counted as success
complete_verification_2fa_post_trusting ==
    /\ pc = "wait_2fa_post"
    /\ \E o \in OutcomesNoBody(creds) :
         /\ last' = IF o.fail THEN NoLast ELSE Seen(o)
         /\ IF Raised(o) # NoExc THEN AuthFails(Raised(o))
            ELSE AuthReturns

\* _complete_verification_2fa from the response to its POST (session.py
\* 389-393), and what _try_login does with the response it returns
complete_verification_2fa_post ==
    /\ pc = "wait_2fa_post"
    /\ \E o \in OutcomesNoBody(creds) :
         /\ last' = IF o.fail THEN NoLast ELSE Seen(o)
         /\ IF Raised(o) # NoExc THEN AuthFails(Raised(o))
            ELSE final_decision(o)

\* what the caller keeps of the response to its own request
Got(r) == [status |-> r.status, url |-> r.url, text |-> r.text]
\* what the portal answers to the caller's own request
CallerOutcomes(c, kind, url) ==
    { [fail |-> FALSE, status |-> st, url |-> u, text |-> t] :
        st \in {200, 500}, u \in {url, create_url(c, P_LOGIN)},
        t \in IF kind \in {"json_get", "json_post"} THEN Texts(JsonDepth)
              ELSE {JEmpty} }
        \cup {TransportFailure}

\* the wrapped get/post returns (session.py 460-464) and, in json(), the text
\* of the response is decoded (session.py 435-456)
func ==
    /\ pc = "wait_func"
    /\ fetch = NoFetch
    /\ \E r \in CallerOutcomes(creds, call.kind, wire.url) :
         /\ resp' = IF r.fail THEN NoResp ELSE Got(r)
         /\ IF r.fail
            THEN raised' = ConnectionError /\ result' = NoResult
            ELSE IF call.kind \in {"get", "post"}
            THEN raised' = NoExc /\ result' = [k |-> "response", r |-> r]
            ELSE IF json_decode(r.text).ok
            THEN /\ raised' = NoExc
                 /\ result' = [k |-> "json", value |-> json_decode(r.text).value]
            ELSE /\ raised' = json_decode(r.text).exc
                 /\ result' = NoResult
    /\ pc' = "idle"
    /\ wire' = NoReq
    /\ UNCHANGED <<creds, call, sent, page, last, auth, fetch, target, rest_vars, results_vars>>

\* a get, post or json call made on the Session by its owner
gateway(kind, path) ==
    inner(kind, path) /\ UNCHANGED <<fetch, target, results_vars>>

Next ==
    \/ post_init
    \/ \E kind \in CallKinds, path \in CallPaths : gateway(kind, path)
    \/ try_login_probe
    \/ try_login_login_get
    \/ do_login_post
    \/ complete_verification_post
    \/ complete_verification_2fa_config
    \/ complete_verification_2fa_post
    \/ func

Spec == Init /\ [][Next]_vars

\* _try_login has a request in flight and waits for its response
Waiting ==
    pc \in { "wait_probe", "wait_login_get", "wait_login_post",
             "wait_verification_post", "wait_2fa_config", "wait_2fa_post" }
\* the step that receives the response to the request in flight
try_login_step ==
    \/ try_login_probe
    \/ try_login_login_get
    \/ do_login_post
    \/ complete_verification_post
    \/ complete_verification_2fa_config
    \/ complete_verification_2fa_post
\* ------------------------------------------------- file_fetch, the actions
\* file_fetch.py works on the module-level session of session.py 467, built
\* without credentials; a caller has to give it some (session.creds = ...)
FetchCreds ==
    { Stripped(AppCredentials(PyStr(U_NAME), PyStr(U_PASS), PyStr(HOST),
                              PyStr(D_DASH))),
      CustomCredentials(PyStr(D_DASH), PyStr(TOTP_SECRET)) }
FetchInit ==
    /\ creds = NoCreds
    /\ pc = "idle"
    /\ call = NoCall
    /\ sent = <<>>
    /\ wire = NoReq
    /\ page = NoPage
    /\ last = NoLast
    /\ auth = "Unknown"
    /\ raised = NoExc
    /\ result = NoResult
    /\ resp = NoResp
    /\ fetch = NoFetch
    /\ target \in TargetStates
    /\ html_content = NoDoc
    /\ form_selector = ""
    /\ NoResults
    /\ NoThreads
\* the caller gives the module-level session its credentials
set_creds ==
    /\ pc = "idle"
    /\ creds = NoCreds
    /\ creds' \in FetchCreds
    /\ UNCHANGED <<pc, call, sent, wire, page, last, auth, raised, result, resp,
                   fetch, target, rest_vars, results_vars>>

\* a function of file_fetch.py raises e before it has called session.get
FetchRaises(e) ==
    /\ raised' = e
    /\ pc' = "idle"
    /\ call' = NoCall
    /\ sent' = <<>>
    /\ wire' = NoReq
    /\ page' = NoPage
    /\ last' = NoLast
    /\ auth' = "Unknown"
    /\ result' = NoResult
    /\ resp' = NoResp
    /\ UNCHANGED <<creds, rest_vars, results_vars>>

\* browse_course_documents up to the probe of its session.get
\* (file_fetch.py 68-74): create_url reads creds.main_url (session.py 409-418)
browse_course_documents ==
    /\ pc = "idle"
    /\ fetch' = [op |-> "browse"]
    /\ target' = target
    /\ IF creds = NoCreds
       THEN FetchRaises(Exc("AttributeError", NoMsg, NoExc))
       ELSE inner("get", create_url(creds, P_BROWSE))
            /\ UNCHANGED results_vars

\* download_document up to the probe of its session.get (file_fetch.py
\* 190-210)
download_document(overwrite) ==
    /\ pc = "idle"
    /\ fetch' = [op |-> "download", overwrite |-> overwrite]
    /\ target' = target
    /\ IF creds = NoCreds
       THEN FetchRaises(Exc("AttributeError", NoMsg, NoExc))
       ELSE IF target = "no_parent"
       THEN FetchRaises(Exc("FileNotFoundError", NoMsg, NoExc))
       ELSE IF target = "dir"
       THEN FetchRaises(Exc("ValueError", NoMsg, NoExc))
       ELSE IF exists(target) /\ ~overwrite
       THEN FetchRaises(Exc("SmartSchoolException",
                            [NoMsg EXCEPT !.text = "Target file already exists and overwrite is False"],
                            NoExc))
       ELSE inner("get", create_url(creds, P_DOWNLOAD))
            /\ UNCHANGED results_vars

\* what the portal answers to the request of a file_fetch function
FetchOutcomes(c, op, url) ==
    { [fail |-> FALSE, status |-> st, url |-> u, text |-> t] :
        st \in {200, 500}, u \in {url, create_url(c, P_LOGIN)},
        t \in IF op = "browse" THEN {"listing", "broken listing"}
              ELSE {"stream"} }
        \cup {TransportFailure}

\* the end of a file_fetch function: e is raised inside its try block, or
\* value is returned
FetchEnds(e, value) ==
    /\ raised' = IF e = NoExc THEN NoExc ELSE fetch_raise(fetch, e)
    /\ result' = value
    /\ pc' = "idle"
    /\ wire' = NoReq
    /\ UNCHANGED <<creds, call, sent, page, last, auth, fetch, rest_vars, results_vars>>

\* browse_course_documents from the response to its request (file_fetch.py
\* 74-156)
browse_course_documents_response ==
    /\ pc = "wait_func"
    /\ fetch.op = "browse"
    /\ target' = target
    /\ \E r \in FetchOutcomes(creds, fetch.op, wire.url) :
         /\ resp' = IF r.fail THEN NoResp ELSE Got(r)
         /\ IF Raised(r) # NoExc THEN FetchEnds(Raised(r), NoResult)
            ELSE IF Contains(r.url, P_LOGIN)
            THEN FetchEnds(AuthError("Redirected to login page when browsing"),
                           NoResult)
            ELSE IF r.text = "broken listing"
            THEN FetchEnds(Exc("AttributeError", NoMsg, NoExc), NoResult)
            ELSE FetchEnds(NoExc, [k |-> "items"])

\* download_document from the response to its request (file_fetch.py
\* 210-231): the file is written, or the except block removes what is at the
\* target path
download_document_response ==
    /\ pc = "wait_func"
    /\ fetch.op = "download"
    /\ \E r \in FetchOutcomes(creds, fetch.op, wire.url),
          written \in {"all", "nothing", "partly"} :
         /\ resp' = IF r.fail THEN NoResp ELSE Got(r)
         /\ IF Raised(r) # NoExc
            THEN FetchEnds(Raised(r), NoResult) /\ target' = cleanup(target)
            ELSE IF Contains(r.url, P_LOGIN)
            THEN /\ FetchEnds(AuthError("Redirected to login page when downloading"),
                              NoResult)
                 /\ target' = cleanup(target)
            ELSE IF written = "nothing"
            THEN /\ FetchEnds(Exc("OSError", NoMsg, NoExc), NoResult)
                 /\ target' = cleanup(target)
            ELSE IF written = "partly"
            THEN /\ FetchEnds(ConnectionError, NoResult)
                 /\ target' = cleanup(IF target = "locked_file" THEN target
                                      ELSE "partial_file")
            ELSE /\ FetchEnds(NoExc, [k |-> "path"])
                 /\ target' = IF target = "locked_file" THEN target
                              ELSE "new_file"

FetchNext ==
    \/ set_creds
    \/ browse_course_documents
    \/ \E overwrite \in BOOLEAN : download_document(overwrite)
    \/ try_login_probe
    \/ try_login_login_get
    \/ do_login_post
    \/ complete_verification_post
    \/ complete_verification_2fa_config
    \/ complete_verification_2fa_post
    \/ browse_course_documents_response
    \/ download_document_response
FetchSpec == FetchInit /\ [][FetchNext]_vars

\* debugging_auth.py: the script is given a document and a selector and
\* calls get_form_inputs on them
FormInit ==
    /\ creds = NoCreds
    /\ pc = "script"
    /\ call = NoCall
    /\ sent = <<>>
    /\ wire = NoReq
    /\ page = NoPage
    /\ last = NoLast
    /\ auth = "Unknown"
    /\ raised = NoExc
    /\ result = NoResult
    /\ resp = NoResp
    /\ fetch = NoFetch
    /\ target = "absent"
    /\ html_content \in Docs
    /\ form_selector \in {SEL_LOGIN, SEL_VERIF}
    /\ NoResults
    /\ NoThreads
\* get_form_inputs(html_content, form_selector) returns
get_form_inputs_call ==
    /\ pc = "script"
    /\ pc' = "script_done"
    /\ result' = get_form_inputs(html_content, form_selector)
    /\ raised' = NoExc
    /\ UNCHANGED <<creds, call, sent, wire, page, last, auth, resp, fetch,
                   target, rest_vars, results_vars>>
FormNext == get_form_inputs_call
FormSpec == FormInit /\ [][FormNext]_vars

\* Every request _try_login makes returns or fails: session.get and
\* session.post are blocking calls that end with a response or an exception.
Responds == WF_vars(try_login_step)
FairSpec == Spec /\ Responds

\* ---------------------------------------------------- results.py, Results
\* str(n) in an f-string, for a natural number
RECURSIVE Decimal(_)
Decimal(n) ==
    IF n < 10 THEN <<DigitChar[n + 1]>>
    ELSE Decimal(n \div 10) \o <<DigitChar[(n % 10) + 1]>>
\* the path Results.__iter__ asks for (results.py 34)
results_path(n) ==
    P_RESULTS \o Decimal(n) \o Q_ITEMS \o Decimal(RESULTS_PER_PAGE)
\* the item at position i of page n
Item(n, i) == <<n, i>>
\* the numbers of items the portal puts on a page
PageLengths ==
    {0, RESULTS_PER_PAGE - 1, RESULTS_PER_PAGE, RESULTS_PER_PAGE + 1}
\* what the portal answers to the request for a page: a JSON list of some
\* length, an empty body, or a body that is not JSON
ResultsOutcomes(url) ==
    { [fail |-> FALSE, status |-> st, url |-> url, text |-> t] :
        st \in {200, 500},
        t \in { [k |-> "list", len |-> n] : n \in PageLengths }
               \cup { [k |-> "empty"], [k |-> "html"] } }
        \cup {TransportFailure}

ResultsInit ==
    /\ creds \in FetchCreds
    /\ pc = "idle"
    /\ call = NoCall
    /\ sent = <<>>
    /\ wire = NoReq
    /\ page = NoPage
    /\ last = NoLast
    /\ auth = "Unknown"
    /\ raised = NoExc
    /\ result = NoResult
    /\ resp = NoResp
    /\ fetch = [op |-> "results"]
    /\ target = "absent"
    /\ html_content = NoDoc
    /\ form_selector = ""
    /\ NoResults
    /\ NoThreads

\* self.smartschool.get(...) for page n (results.py 33-34), up to the probe
Results_get(n) ==
    /\ page_nr' = n
    /\ requested' = Append(requested, n)
    /\ json' = NoJson
    /\ inner("get", results_path(n))
    /\ UNCHANGED <<fetch, target, yielded, fetched>>

\* Results_iter with the test len(json) <= RESULTS_PER_PAGE: a full page
\* would end the iteration
Results_iter_stopping_on_full ==
    /\ pc = "idle"
    /\ fetch.op = "results"
    /\ raised = NoExc
    /\ json.k # "stopped"
    /\ IF json.k = "none" THEN Results_get(1)
       ELSE IF json.next <= json.len
       THEN /\ yielded' = Append(yielded, Item(page_nr, json.next))
            /\ json' = [json EXCEPT !.next = @ + 1]
            /\ UNCHANGED <<creds, pc, call, sent, wire, page, last, auth,
                           raised, result, resp, fetch, target, page_nr,
                           requested, fetched, rest_vars>>
       ELSE IF json.len <= RESULTS_PER_PAGE
       THEN /\ json' = [k |-> "stopped"]
            /\ UNCHANGED <<creds, pc, call, sent, wire, page, last, auth,
                           raised, result, resp, fetch, target, page_nr,
                           yielded, requested, fetched, rest_vars>>
       ELSE /\ page_nr < MaxPages
            /\ Results_get(page_nr + 1)

\* the consumer asks the iterator for its next item (results.py 33-43): the
\* first page is asked for, or the next item of the page is yielded, or the
\* page is at its end and the iteration stops or goes on to the next page
Results_iter ==
    /\ pc = "idle"
    /\ fetch.op = "results"
    /\ raised = NoExc
    /\ json.k # "stopped"
    /\ IF json.k = "none" THEN Results_get(1)
       ELSE IF json.next <= json.len
       THEN /\ yielded' = Append(yielded, Item(page_nr, json.next))
            /\ json' = [json EXCEPT !.next = @ + 1]
            /\ UNCHANGED <<creds, pc, call, sent, wire, page, last, auth,
                           raised, result, resp, fetch, target, page_nr,
                           requested, fetched, rest_vars>>
       ELSE IF json.len < RESULTS_PER_PAGE
       THEN /\ json' = [k |-> "stopped"]
            /\ UNCHANGED <<creds, pc, call, sent, wire, page, last, auth,
                           raised, result, resp, fetch, target, page_nr,
                           yielded, requested, fetched, rest_vars>>
       ELSE /\ page_nr < MaxPages
            /\ Results_get(page_nr + 1)

\* the page comes back (results.py 34-38): a response that is falsy (an error
\* status) or has no content raises SmartSchoolDownloadError, a body that is
\* not JSON makes Response.json() raise, a list becomes json
Results_response ==
    /\ pc = "wait_func"
    /\ fetch.op = "results"
    /\ \E r \in ResultsOutcomes(wire.url) :
         /\ resp' = IF r.fail THEN NoResp ELSE Got(r)
         /\ IF r.fail
            THEN raised' = ConnectionError /\ UNCHANGED <<json, fetched>>
            ELSE IF r.status >= 400 \/ r.text.k = "empty"
            THEN /\ raised' = Exc("SmartSchoolDownloadError",
                                  [NoMsg EXCEPT !.text = "No JSON was returned for the results?!"],
                                  NoExc)
                 /\ UNCHANGED <<json, fetched>>
            ELSE IF r.text.k = "html"
            THEN /\ raised' = Exc("JSONDecodeError", NoMsg, NoExc)
                 /\ UNCHANGED <<json, fetched>>
            ELSE /\ raised' = NoExc
                 /\ json' = [k |-> "list", len |-> r.text.len, next |-> 1]
                 /\ fetched' = Append(fetched, r.text.len)
    /\ pc' = "idle"
    /\ wire' = NoReq
    /\ UNCHANGED <<creds, call, sent, page, last, auth, result, fetch, target,
                   page_nr, yielded, requested, rest_vars>>

ResultsNext ==
    \/ Results_iter
    \/ try_login_probe
    \/ try_login_login_get
    \/ do_login_post
    \/ complete_verification_post
    \/ complete_verification_2fa_config
    \/ complete_verification_2fa_post
    \/ Results_response
ResultsSpec == ResultsInit /\ [][ResultsNext]_vars

\* ------------------------------------------- two threads on one Session
\* the credentials of the shared Session
ThreadCreds ==
    Stripped(AppCredentials(PyStr(U_NAME), PyStr(U_PASS), PyStr(HOST),
                            PyStr(D_DASH)))
Other(t) == CHOOSE u \in Threads : u # t
\* A portal that keeps a session valid once the login POST has opened it:
\* with the session's cookie in the jar every page is served, without it GET /
\* and the caller's page redirect to /login and /login serves the login form.
PortalAnswer(j, method, url) ==
    [fail |-> FALSE, status |-> 200,
     url |-> IF method = "POST" THEN create_url(ThreadCreds, P_ROOT)
             ELSE IF j # "authenticated" THEN create_url(ThreadCreds, P_LOGIN)
             ELSE IF url = create_url(ThreadCreds, P_LOGIN)
             THEN create_url(ThreadCreds, P_ROOT)
             ELSE url]
\* thread t sends a request and waits for its response at p
ThreadSends(t, by, method, url, p) ==
    threads' = [threads EXCEPT ![t].pc = p,
                               ![t].sent = Append(@, Logged(by, method, url))]

ThreadInit ==
    /\ creds = ThreadCreds
    /\ pc = "idle"
    /\ call = NoCall
    /\ sent = <<>>
    /\ wire = NoReq
    /\ page = NoPage
    /\ last = NoLast
    /\ auth = "Unknown"
    /\ raised = NoExc
    /\ result = NoResult
    /\ resp = NoResp
    /\ fetch = NoFetch
    /\ target = "absent"
    /\ html_content = NoDoc
    /\ form_selector = ""
    /\ NoResults
    /\ NoThreads

\* thread_inner if the wrapper took a lock the other thread's call holds
thread_inner_locked(t) ==
    /\ threads[t].pc = "idle"
    /\ threads[Other(t)].pc = "idle"
    /\ threads[t].calls < MaxCalls
    /\ threads' =
         [threads EXCEPT
            ![t] = [pc |-> "wait_probe",
                    sent |-> <<Logged("auth", "GET", create_url(creds, P_ROOT))>>,
                    calls |-> threads[t].calls + 1,
                    overlapped |-> FALSE,
                    began |-> jar]]
    /\ UNCHANGED jar

\* thread t calls get() on the Session (session.py 34-41): the wrapper goes
\* straight into _try_login, whose first request is the probe (session.py
\* 125), whatever the other thread is doing
thread_inner(t) ==
    /\ threads[t].pc = "idle"
    /\ threads[t].calls < MaxCalls
    /\ threads' =
         [threads EXCEPT
            ![t] = [pc |-> "wait_probe",
                    sent |-> <<Logged("auth", "GET", create_url(creds, P_ROOT))>>,
                    calls |-> threads[t].calls + 1,
                    overlapped |-> threads[Other(t)].pc # "idle",
                    began |-> jar],
            ![Other(t)].overlapped = @ \/ threads[Other(t)].pc # "idle"]
    /\ UNCHANGED jar

\* thread t gets the response to its probe (session.py 125-152)
thread_try_login_probe(t) ==
    /\ threads[t].pc = "wait_probe"
    /\ LET o == PortalAnswer(jar, "GET", create_url(creds, P_ROOT)) IN
       IF session_is_valid(o)
       THEN ThreadSends(t, "caller", "GET", create_url(creds, P_API), "wait_func")
       ELSE ThreadSends(t, "auth", "GET", create_url(creds, P_LOGIN),
                        "wait_login_get")
    /\ UNCHANGED jar

\* thread t gets the response to GET /login (session.py 152-174)
thread_try_login_login_get(t) ==
    /\ threads[t].pc = "wait_login_get"
    /\ LET o == PortalAnswer(jar, "GET", create_url(creds, P_LOGIN)) IN
       IF EndsWith(o.url, P_LOGIN)
       THEN ThreadSends(t, "auth", "POST", o.url, "wait_login_post")
       ELSE ThreadSends(t, "caller", "GET", create_url(creds, P_API), "wait_func")
    /\ UNCHANGED jar

\* thread t gets the response to its login POST (session.py 283-290 and
\* 176-186); the response's cookie goes into the jar both threads use
thread_do_login_post(t) ==
    /\ threads[t].pc = "wait_login_post"
    /\ jar' = "authenticated"
    /\ LET o == PortalAnswer(jar, "POST", create_url(creds, P_LOGIN)) IN
       IF EndsWithAuth(o.url) \/ o.status # 200
       THEN threads' = [threads EXCEPT ![t].pc = "idle"]
       ELSE ThreadSends(t, "caller", "GET", create_url(creds, P_API), "wait_func")

\* thread t gets the response to its own request (session.py 460-464)
thread_func(t) ==
    /\ threads[t].pc = "wait_func"
    /\ threads' = [threads EXCEPT ![t].pc = "idle"]
    /\ UNCHANGED jar

ThreadStep(t) ==
    \/ thread_inner(t)
    \/ thread_try_login_probe(t)
    \/ thread_try_login_login_get(t)
    \/ thread_do_login_post(t)
    \/ thread_func(t)
ThreadNext ==
    /\ \E t \in Threads : ThreadStep(t)
    /\ UNCHANGED <<creds, pc, call, sent, wire, page, last, auth, raised,
                   result, resp, fetch, target, form_vars, results_vars>>
ThreadSpec == ThreadInit /\ [][ThreadNext]_vars

\* ----------------------------------------------------------------- claims
\* the requests of the current call that _try_login sent, and the caller's own
AuthRequests == SelectSeq(sent, LAMBDA r : r.by = "auth")
CallerRequests == SelectSeq(sent, LAMBDA r : r.by = "caller")
HomeUrl == SCHEME \o HOST \o P_ROOT
LoginUrl == SCHEME \o HOST \o P_LOGIN
VerifUrl == SCHEME \o HOST \o P_VERIF
IsProbe(r) == r = Logged("auth", "GET", HomeUrl)

\* C1: in every call of get, post or json on a session with credentials, the
\* caller's own request is sent only after _try_login has returned without
\* raising, and never before the probe GET / of the same call: the probe is the
\* first request of the call, and every request before the caller's is one of
\* the authentication routine.
C1_AuthenticationFirst ==
    \A i \in 1..Len(sent) :
        sent[i].by = "caller" =>
            /\ creds # NoCreds
            /\ auth = "Authenticated"
            /\ i > 1
            /\ IsProbe(sent[1])
            /\ \A j \in 1..Len(sent) : j # i => sent[j].by = "auth" /\ j < i
\* a call whose own request went out after a ceremony of several round trips
C1_Witness ==
    /\ Len(sent) >= 4
    /\ sent[Len(sent)].by = "caller"
    /\ call.kind = "json_post"

\* C2: when _try_login raises during a get/post/json call, the caller's own
\* request is never sent, nothing is returned, and the caller sees the
\* SmartSchoolAuthenticationError that _try_login raised.
C2_AuthErrorReachesCaller ==
    auth = "Failed" =>
        /\ CallerRequests = <<>>
        /\ wire = NoReq
        /\ result = NoResult
        /\ raised.type = "SmartSchoolAuthenticationError"
        /\ pc = "idle"
\* a json() call whose ceremony failed after the login POST
C2_Witness ==
    /\ auth = "Failed"
    /\ call.kind = "json_get"
    /\ Len(sent) >= 3
    /\ raised.type = "SmartSchoolAuthenticationError"

\* C3: when the probe GET / answers 200 on a final URL that ends in none of
\* /login, /account-verification, /2fa, _try_login returns normally and the
\* probe is the only request it has made.
C3_ShortCircuit ==
    [][(pc = "wait_probe" /\ last'.status = 200 /\ ~EndsWithAuth(last'.url))
        => (/\ auth' = "Authenticated"
            /\ raised' = NoExc
            /\ Len(sent') = 2
            /\ IsProbe(sent'[1])
            /\ sent'[2].by = "caller")]_vars
\* the probe answered 200 on the home page and the routine has returned
C3_Witness ==
    /\ pc = "wait_func"
    /\ auth = "Authenticated"
    /\ Len(AuthRequests) = 1
    /\ last = [status |-> 200, url |-> HomeUrl]

\* C4: whenever _try_login returns without raising, the last response it saw
\* had status 200 and a final URL ending in none of /login,
\* /account-verification, /2fa.
C4_AuthenticatedOn200 ==
    auth = "Authenticated" =>
        last.status = 200 /\ ~EndsWithAuth(last.url)

\* C5: whenever the ceremony has sent a login POST, a verification POST or a
\* 2FA POST and ends Authenticated, the last request it made is one more
\* GET /, sent after the POST, on which the outcome is decided.
C5_FinalCheckAfterPost ==
    (auth = "Authenticated"
        /\ \E i \in 1..Len(sent) : sent[i].by = "auth" /\ sent[i].method = "POST")
    => AuthRequests[Len(AuthRequests)] = Logged("auth", "GET", HomeUrl)

\* the first four round trips of the cold login with verification
ColdLogin4 ==
    << Logged("auth", "GET", HomeUrl), Logged("auth", "GET", LoginUrl),
       Logged("auth", "POST", LoginUrl), Logged("auth", "POST", VerifUrl) >>
\* C6: cold login with verification (probe lands on /login, the login POST
\* lands on /account-verification, the secret is "2008-05-01", the
\* verification POST lands on / with 200): the result is Authenticated after
\* exactly the five round trips probe, login GET, login POST, verification
\* POST, final check GET /, in that order.
C6_ColdLoginFiveRoundTrips ==
    (/\ creds # NoCreds
     /\ auth # "Unknown"
     /\ Len(AuthRequests) >= 4
     /\ SubSeq(AuthRequests, 1, 4) = ColdLogin4
     /\ creds.mfa = PyStr(D_DASH)
     /\ last = [status |-> 200, url |-> HomeUrl])
    => /\ auth = "Authenticated"
       /\ AuthRequests = Append(ColdLogin4, Logged("auth", "GET", HomeUrl))

\* C7: with credentials made by PathCredentials, EnvCredentials or
\* AppCredentials and accepted by validate(), the ceremony uses the stored
\* verification secret and never fails because the secret is missing.
C7_LoaderSecretIsUsed ==
    (creds # NoCreds /\ creds.kind \in {"App", "Env", "Path"} /\ auth = "Failed")
    => /\ raised.msg.text #
            "Birth date is required for verification but not provided in credentials"
       /\ raised.cause.type # "AttributeError"

\* the named fields of the page the request in flight was built from
HasField(html, name) ==
    \E i \in 1..Len(html.inputs) : html.inputs[i].name = name
\* the value of the last input of the page with that name
LastValue(html, name) ==
    LET i == CHOOSE k \in 1..Len(html.inputs) :
                /\ html.inputs[k].name = name
                /\ \A m \in (k + 1)..Len(html.inputs) : html.inputs[m].name # name
    IN html.inputs[i].value
DistinctKeys(d) ==
    \A i, j \in 1..Len(d) : d[i][1] = d[j][1] => i = j

\* C8 as stated: for a login form holding login_form[_username] and
\* login_form[_password] among others, the login POST sets exactly those two
\* fields, to the username and the password, and sends every other field with
\* its extracted default value.
C8_ExactlyTwoFieldsSet ==
    (pc = "wait_login_post" /\ HasField(page, F_USER) /\ HasField(page, F_PASS))
    => /\ Lookup(wire.data, F_USER) = creds.username
       /\ Lookup(wire.data, F_PASS) = creds.password
       /\ \A i \in 1..Len(page.inputs) :
            page.inputs[i].name \notin {F_USER, F_PASS, <<>>}
            => /\ HasKey(wire.data, page.inputs[i].name)
               /\ Lookup(wire.data, page.inputs[i].name)
                    = PyStr(LastValue(page, page.inputs[i].name))

\* C8, amended: the login POST goes to the URL of the login page, and its body
\* has one entry for each named field of the form: the username for every
\* field whose name contains "username", the password for every other field
\* whose name contains "password", and the extracted default value for every
\* remaining field.
C8_SubstringFieldsSet ==
    pc = "wait_login_post"
    => /\ wire.method = "POST"
       /\ wire.url = last.url
       /\ DistinctKeys(wire.data)
       /\ \A k \in 1..Len(wire.data) : HasField(page, wire.data[k][1])
       /\ \A i \in 1..Len(page.inputs) :
            LET name == page.inputs[i].name IN
            name # <<>>
            => /\ HasKey(wire.data, name)
               /\ Lookup(wire.data, name) =
                    IF Contains(name, S_username) THEN creds.username
                    ELSE IF Contains(name, S_password) THEN creds.password
                    ELSE PyStr(LastValue(page, name))
\* a login POST built from a form with a token, the two credential fields
\* and a further field whose name contains "username"
C8_Witness ==
    /\ pc = "wait_login_post"
    /\ HasField(page, F_USER) /\ HasField(page, F_PASS)
    /\ HasField(page, F_BOTH)
    /\ Lookup(wire.data, F_BOTH) = PyStr(U_NAME)
C8_WitnessToken ==
    /\ pc = "wait_login_post"
    /\ page.inputs = <<Field(F_TOKEN, V_TOK), Field(F_USER, EMPTY),
                       Field(F_PASS, EMPTY)>>

\* the answers in the body of the verification POST in flight
Answers ==
    { wire.data[i][2] : i \in { k \in 1..Len(wire.data) :
                                  Contains(wire.data[k][1], S_sqa) } }
DigitValue(ch) == CHOOSE n \in 0..9 : DigitChar[n + 1] = ch
IsDigit(ch) == \E n \in 0..9 : DigitChar[n + 1] = ch
\* C9: the security answer submitted is "2008-05-01" for the string secret
\* "2008/05/01", for the date May 1 2008 and for the string "2008-05-01"; a
\* string secret is sent with every "/" replaced by "-" and nothing else
\* changed, a date secret as its four-digit year, two-digit month and
\* two-digit day joined by "-".
C9_SecretFormatting ==
    pc = "wait_verification_post"
    => /\ Cardinality(Answers) = 1
       /\ \A a \in Answers :
            /\ a.t = "str"
            /\ creds.mfa \in {PyStr(D_SLASH), PyStr(D_DASH), PyDate(2008, 5, 1)}
                 => a.s = D_DASH
            /\ creds.mfa.t = "str"
                 => /\ Len(a.s) = Len(creds.mfa.s)
                    /\ \A k \in 1..Len(a.s) :
                         a.s[k] = IF creds.mfa.s[k] = "/" THEN "-"
                                  ELSE creds.mfa.s[k]
            /\ creds.mfa.t = "date"
                 => /\ Len(a.s) = 10
                    /\ a.s[5] = "-" /\ a.s[8] = "-"
                    /\ \A k \in {1, 2, 3, 4, 6, 7, 9, 10} : IsDigit(a.s[k])
                    /\ 1000 * DigitValue(a.s[1]) + 100 * DigitValue(a.s[2])
                         + 10 * DigitValue(a.s[3]) + DigitValue(a.s[4])
                         = creds.mfa.y
                    /\ 10 * DigitValue(a.s[6]) + DigitValue(a.s[7]) = creds.mfa.m
                    /\ 10 * DigitValue(a.s[9]) + DigitValue(a.s[10]) = creds.mfa.d
\* a verification POST for the secret "2008/05/01"
C9_Witness ==
    /\ pc = "wait_verification_post"
    /\ creds.mfa = PyStr(D_SLASH)
    /\ PyStr(D_DASH) \in Answers
C9_WitnessDate ==
    /\ pc = "wait_verification_post"
    /\ creds.mfa = PyDate(2008, 5, 1)
    /\ PyStr(D_DASH) \in Answers

C11_TerminalVerificationFailure ==
    [][(pc = "wait_verification_post" /\ EndsWith(last'.url, P_VERIF))
        => /\ auth' = "Failed"
           /\ raised'.type = "SmartSchoolAuthenticationError"
           /\ raised'.msg.url = last'.url
           /\ sent' = sent
           /\ wire' = NoReq
           /\ pc' = "idle"]_vars
\* a call that failed on a verification POST answered 200 at
\* /account-verification
C11_Witness ==
    /\ auth = "Failed"
    /\ Len(sent) = 4
    /\ sent[4] = Logged("auth", "POST", VerifUrl)
    /\ last = [status |-> 200, url |-> VerifUrl]
    /\ raised.msg = [text |-> "Authentication failed, ended on",
                     url |-> VerifUrl, status |-> 0]

TwoFaConfigUrl == SCHEME \o HOST \o P_2FA_CONFIG
TwoFaPostUrl == SCHEME \o HOST \o P_2FA_GA
MechanismError ==
    AuthError("Could not find supported 2fa verification method, only googleAuthenticator is supported")
\* C12: if the 2FA config endpoint reports a mechanism list without the
\* authenticator-app mechanism (only "sms", or no list at all), the call fails
\* with a SmartSchoolAuthenticationError before any one-time code is computed
\* and before any POST to the 2FA verification endpoint.
C12_MechanismGate ==
    [][(/\ pc = "wait_2fa_config"
        /\ pc' # pc
        /\ last' # NoLast
        /\ last'.config.k = "object"
        /\ \A i \in 1..Len(last'.config.mechs) :
              last'.config.mechs[i] # "googleAuthenticator")
        => /\ auth' = "Failed"
           /\ raised'.type = "SmartSchoolAuthenticationError"
           /\ last'.status = 200 => raised' = MechanismError
           /\ raised'.cause.type \notin {"AttributeError", "TypeError", "binascii.Error"}
           /\ sent' = sent
           /\ wire' = NoReq
           /\ \A i \in 1..Len(sent') : sent'[i].method = "POST"
                 => ~Contains(sent'[i].url, P_2FA)]_vars
\* a call that failed because the config listed only "sms"
C12_Witness ==
    /\ auth = "Failed"
    /\ raised = MechanismError
    /\ sent[Len(sent)] = Logged("auth", "GET", TwoFaConfigUrl)
    /\ last.status = 200
    /\ last.config.mechs = <<"sms">>

\* C13: after the 2FA code POST, any response whose status is not 200 makes the
\* call fail with a SmartSchoolAuthenticationError, and only a 200 response
\* reaches the success decision: the call is Authenticated only on a 200
\* response whose final URL is not an authentication URL.
C13_TwoFaPostStatus ==
    [][(pc = "wait_2fa_post" /\ pc' # pc)
        => /\ last'.status # 200
                => /\ auth' = "Failed"
                   /\ raised'.type = "SmartSchoolAuthenticationError"
                   /\ sent' = sent
           /\ auth' = "Authenticated"
                <=> (last'.status = 200 /\ ~EndsWithAuth(last'.url))
           /\ auth' \in {"Authenticated", "Failed"}]_vars
\* a call that failed on a 2FA code POST answered 204
C13_Witness ==
    /\ auth = "Failed"
    /\ sent[Len(sent)] = Logged("auth", "POST", TwoFaPostUrl)
    /\ last = [status |-> 204, url |-> HomeUrl]
    /\ raised.msg.text = "Authentication failed, status"
C13_WitnessSuccess ==
    /\ auth = "Authenticated"
    /\ Len(AuthRequests) = 5
    /\ AuthRequests[5] = Logged("auth", "POST", TwoFaPostUrl)

\* the messages of the SmartSchoolAuthenticationErrors the flow raises itself
OwnAuthMessages ==
    { "Could not find login form inputs.",
      "Login form parsing failed: Missing username or password field.",
      "Could not find verification form fields",
      "Could not find security question field in verification form",
      "Birth date is required for verification but not provided in credentials",
      "Could not find supported 2fa API endpoint",
      "Could not find supported 2fa verification method, only googleAuthenticator is supported",
      "Authentication failed, ended on",
      "Authentication failed, status" }
MidFlow ==
    { "wait_login_get", "wait_login_post", "wait_verification_post",
      "wait_2fa_config", "wait_2fa_post" }
\* C14: an unexpected exception raised after the probe (a failed request, an
\* HTTP error, an undecodable config body, a secret pyotp cannot use, a form
\* that cannot be parsed) reaches the caller as a
\* SmartSchoolAuthenticationError whose cause is that exception, and a
\* SmartSchoolAuthenticationError raised inside the flow reaches the caller as
\* it was raised, without a cause and not wrapped again.
C14_UnexpectedIsWrappedOnce ==
    [][(pc \in MidFlow /\ auth' = "Failed")
        => /\ raised'.type = "SmartSchoolAuthenticationError"
           /\ last' = NoLast
                => raised'.cause = [type |-> "ConnectionError", msg |-> NoMsg]
           /\ last'.status >= 400
                => raised'.cause =
                     [type |-> "HTTPError",
                      msg |-> [text |-> "", url |-> last'.url,
                               status |-> last'.status]]
           /\ (pc = "wait_2fa_config" /\ last'.status = 200
                 /\ last'.config.k = "invalid")
                => raised'.cause.type = "JSONDecodeError"
           /\ (last' # NoLast /\ last'.status < 400 /\ EndsWithAuth(last'.url)
                 /\ pc \in {"wait_verification_post", "wait_2fa_post"})
                => raised' = Exc("SmartSchoolAuthenticationError",
                                 [text |-> "Authentication failed, ended on",
                                  url |-> last'.url, status |-> 0], NoExc)
           /\ IF raised'.cause = NoExc
              THEN raised'.msg.text \in OwnAuthMessages
              ELSE /\ raised'.cause.type # "SmartSchoolAuthenticationError"
                   /\ raised'.cause.type \in
                        { "ConnectionError", "HTTPError", "JSONDecodeError",
                          "AttributeError", "TypeError", "binascii.Error",
                          "SmartSchoolParsingError" }
                   /\ raised'.msg.text =
                        "An unexpected error occurred during authentication"]_vars
\* a call that failed on a config body that is not JSON
C14_Witness ==
    /\ auth = "Failed"
    /\ raised.type = "SmartSchoolAuthenticationError"
    /\ raised.cause.type = "JSONDecodeError"
    /\ sent[Len(sent)] = Logged("auth", "GET", TwoFaConfigUrl)
C14_WitnessOwn ==
    /\ auth = "Failed"
    /\ raised = AuthError("Could not find security question field in verification form")

\* C15: a transport error (a request that got no response, or an HTTP error
\* raised by raise_for_status) on the login GET, the login POST, the
\* verification POST, the 2FA config GET or the 2FA POST reaches the caller
\* unwrapped, as the transport error it is and not as a
\* SmartSchoolAuthenticationError.
C15_TransportErrorPassesThrough ==
    (auth = "Failed" /\ (last = NoLast \/ last.status >= 400))
    => /\ raised.type \in {"ConnectionError", "HTTPError"}
       /\ raised.type # "SmartSchoolAuthenticationError"

\* C16: within one call, the probe, GET /login, the login POST, the
\* verification POST, the 2FA config GET and the 2FA code POST are each sent at
\* most once, whatever the portal answers; when the ceremony has failed nothing
\* is in flight and the program is back at the caller, so another attempt is
\* made only by another call.
C16_NoAutomaticRetry ==
    /\ \A i, j \in 1..Len(sent) : sent[i] = sent[j] => i = j
    /\ \A i \in 1..Len(sent) :
         sent[i].by = "auth" =>
           \/ sent[i].method = "GET"
                /\ sent[i].url \in {HomeUrl, LoginUrl, TwoFaConfigUrl}
           \/ sent[i].method = "POST"
                /\ sent[i].url \in {LoginUrl, VerifUrl, TwoFaPostUrl}
    /\ auth = "Failed" => pc = "idle" /\ wire = NoReq
\* a call that failed because the login POST landed on /login again: the
\* form was not fetched or posted a second time
C16_Witness ==
    /\ auth = "Failed"
    /\ sent = SubSeq(ColdLogin4, 1, 3)
    /\ last = [status |-> 200, url |-> LoginUrl]

\* C17: every call of the authentication routine ends, Authenticated or
\* Failed, provided each of its requests returns or fails, and it never makes
\* more than 6 HTTP round trips: no answer of the portal keeps it going.
C17_TerminatesWithinSix ==
    /\ [](Len(AuthRequests) <= 6)
    /\ []((~Waiting /\ sent # <<>>) => auth \in {"Authenticated", "Failed"})
    /\ []<>(~Waiting)
\* the longest ceremony: probe, GET /login, login POST, config GET, code POST,
\* then the caller's own request
C17_Witness ==
    /\ auth = "Authenticated"
    /\ Len(sent) = 6
    /\ sent[6].by = "caller"
    /\ sent[4] = Logged("auth", "GET", TwoFaConfigUrl)

\* C18: the outcome of a call is not kept for the next one: every get, post
\* or json call on a session with credentials, whether the call before it ended
\* Authenticated or Failed or there was none, starts with the probe GET / and
\* nothing else, and a new call can always be made once the last has ended.
C18_NoCachedOutcome ==
    [][(pc = "idle" /\ creds # NoCreds)
        => /\ pc' = "wait_probe"
           /\ sent' = <<Logged("auth", "GET", HomeUrl)>>
           /\ wire' = Req("auth", "GET", HomeUrl, <<>>)
           /\ auth' = "Unknown"
           /\ raised' = NoExc
           /\ last' = NoLast]_vars
\* a call has failed and the next call can be made
C18_Witness ==
    /\ pc = "idle"
    /\ auth = "Failed"
    /\ Len(sent) >= 3
    /\ ENABLED gateway("get", P_API)
C18_WitnessAuthenticated ==
    /\ pc = "idle"
    /\ auth = "Authenticated"
    /\ ENABLED gateway("json_post", P_API)

\* a value that is missing, empty or made of whitespace only
IsBlank(v) ==
    \/ v = None
    \/ v.t = "str" /\ \A i \in 1..Len(v.s) : v.s[i] = " "
BlankFields(c) == SelectSeq(RequiredFields, LAMBDA f : IsBlank(c[f]))
\* C19: validate(), run by the construction of a Session, fails with one
\* error that names every required field (username, password, main_url,
\* birth_date) that is missing, empty or whitespace-only, and it succeeds
\* exactly when none of the four is blank.
C19_ValidateListsEveryBlank ==
    [][(pc = "new" /\ creds # NoCreds)
        => /\ pc' = "idle" <=> BlankFields(creds) = <<>>
           /\ BlankFields(creds) # <<>>
                => /\ pc' = "construction_failed"
                   /\ raised'.type = "RuntimeError"
                   /\ raised'.msg.error = BlankFields(creds)]_vars

IsTrimmed(v) ==
    /\ v.t = "str"
    /\ v.s # <<>>
    /\ v.s[1] # " "
    /\ v.s[Len(v.s)] # " "
\* C20: once a Session has been constructed with credentials, username,
\* password, main_url and birth_date are non-empty strings without leading or
\* trailing whitespace; with a blank required field the construction fails
\* and no Session exists.
C20_ConstructedMeansTrimmed ==
    (creds # NoCreds /\ pc # "new")
    => IF \E i \in 1..4 : IsBlank(creds[RequiredFields[i]])
       THEN pc = "construction_failed" /\ raised.type = "RuntimeError"
       ELSE pc # "construction_failed"
              => \A i \in 1..4 : IsTrimmed(creds[RequiredFields[i]])
\* a Session whose birth_date was given with spaces around it
C20_Witness ==
    /\ pc = "idle"
    /\ creds # NoCreds
    /\ creds.kind = "Custom"
    /\ creds.birth_date = PyStr(D_SLASH)
    /\ creds.mfa = PyStr(D_SLASH)

\* C21: once the Session is constructed, no get, post or json call and no
\* step of the login ceremony, whether it succeeds or fails, changes the
\* username, password, host or verification secret the Session holds.
C21_CredentialsImmutable ==
    [][pc # "new" => creds' = creds]_vars
\* a ceremony that posted the answer "2008-05-01" and authenticated, while the
\* Session still holds the secret as it was given, "2008/05/01"
C21_Witness ==
    /\ auth = "Authenticated"
    /\ pc = "idle"
    /\ \E i \in 1..Len(sent) : sent[i] = Logged("auth", "POST", VerifUrl)
    /\ creds.mfa = PyStr(D_SLASH)
    /\ creds.username = PyStr(U_NAME) /\ creds.password = PyStr(U_PASS)
    /\ creds.main_url = PyStr(HOST)

\* the text t encoded n more times as a JSON string
RECURSIVE Wrapped(_, _)
Wrapped(n, t) == IF n = 0 THEN t ELSE JEnc(JStr(Wrapped(n - 1, t)))
JsonCalled ==
    pc = "idle" /\ call.kind \in {"json_get", "json_post"} /\ resp # NoResp
\* C22: json() decodes the response body again and again while what it got
\* is a string and returns the first value that is not a string: an object
\* encoded once, twice or more times comes back as the object, and no string
\* is ever returned; an empty response body gives an empty mapping and no
\* decode error, and a decode error is raised only for a text that is not
\* JSON at some level.
C22_JsonDecodesRepeatedly ==
    JsonCalled
    => /\ resp.text = JEmpty
            => raised = NoExc /\ result = [k |-> "json", value |-> EmptyDict]
       /\ \A n \in 0..JsonDepth :
            resp.text = Wrapped(n, JEnc(JObj))
            => raised = NoExc /\ result = [k |-> "json", value |-> JObj]
       /\ result # NoResult
            => /\ result.k = "json"
               /\ result.value.k # "str"
               /\ raised = NoExc
               /\ \E n \in 0..(JsonDepth + 1) :
                     resp.text = Wrapped(n, IF result.value = EmptyDict
                                            THEN JEmpty ELSE JEnc(result.value))
       /\ result = NoResult
            => /\ raised.type = "JSONDecodeError"
               /\ \E n \in 0..(JsonDepth + 1) : resp.text = Wrapped(n, JInvalid)
\* a json() call answered with an object encoded twice
C22_Witness ==
    /\ JsonCalled
    /\ resp.text = JEnc(JStr(JEnc(JObj)))
    /\ result = [k |-> "json", value |-> JObj]
\* a json() call answered with an empty body
C22_WitnessEmpty ==
    /\ JsonCalled
    /\ resp.text = JEmpty
    /\ result = [k |-> "json", value |-> EmptyDict]
    /\ raised = NoExc

\* an element get_form_inputs records: an input, select or textarea with a
\* name
Recorded(el) ==
    /\ el.tag \in {"input", "select", "textarea"}
    /\ el.name # Absent
    /\ el.name.s # <<>>
\* the values of the recorded elements named n, in document order
ValuesOf(els, n) ==
    LET named == SelectSeq(els, LAMBDA el : Recorded(el) /\ el.name.s = n)
    IN [i \in 1..Len(named) |->
          IF named[i].value = Absent THEN PyStr(EMPTY) ELSE named[i].value]
\* C23: for a document whose form the selector matches, get_form_inputs
\* returns a mapping with one entry per name of an input, select or textarea
\* element that has a name: the single value (the empty string when the
\* element has no value attribute) when the name occurs once, the list of all
\* its values in document order when it occurs more than once; elements
\* without a name are not recorded.
C23_RepeatedNamesAsLists ==
    (pc = "script_done" /\ Matches(html_content, form_selector))
    => /\ result.t = "dict"
       /\ DistinctKeys(result.d)
       /\ \A k \in 1..Len(result.d) :
            \E i \in 1..Len(html_content.elements) :
               /\ Recorded(html_content.elements[i])
               /\ html_content.elements[i].name.s = result.d[k][1]
       /\ \A i \in 1..Len(html_content.elements) :
            LET el == html_content.elements[i] IN
            Recorded(el)
            => /\ HasKey(result.d, el.name.s)
               /\ Lookup(result.d, el.name.s) =
                    IF Len(ValuesOf(html_content.elements, el.name.s)) = 1
                    THEN ValuesOf(html_content.elements, el.name.s)[1]
                    ELSE PyList(ValuesOf(html_content.elements, el.name.s))
\* a form with the same name three times, once without a value attribute
C23_Witness ==
    /\ pc = "script_done"
    /\ html_content.form = "login_form" /\ form_selector = SEL_LOGIN
    /\ Len(html_content.elements) = 3
    /\ result = PyDict(<< <<F_USER, PyList(<<PyStr(V_DEF), PyStr(EMPTY),
                                              PyStr(V_TOK)>>)>> >>)
\* a form with a name that occurs once, on an element without a value
C23_WitnessSingle ==
    /\ pc = "script_done"
    /\ html_content.elements =
         <<Tag("input", Absent, PyStr(V_DEF)), Tag("select", PyStr(F_TOKEN), Absent)>>
    /\ result = PyDict(<< <<F_TOKEN, PyStr(EMPTY)>> >>)

\* C24: when the selector matches no form of the document, form extraction
\* fails with a ParsingError; it never returns None or an empty result for a
\* missing form.
C24_MissingFormRaises ==
    (pc = "script_done" /\ ~Matches(html_content, form_selector))
    => /\ raised.type = "SmartSchoolParsingError"
       /\ result = NoResult

\* C25: when the request of browse_course_documents ends on the login page,
\* or when the authentication of the session fails, the caller of
\* browse_course_documents gets a SmartSchoolAuthenticationError, which an
\* except SmartSchoolAuthenticationError clause catches, and not a plain
\* SmartSchoolException.
C25_BrowseRaisesAuthError ==
    (/\ fetch.op = "browse"
     /\ pc = "idle"
     /\ \/ auth = "Failed"
        \/ resp # NoResp /\ resp.status < 400 /\ Contains(resp.url, P_LOGIN))
    => raised.type = "SmartSchoolAuthenticationError"

\* C26: download_document called with overwrite=False while a file exists
\* at the target path raises SmartSchoolException, sends no HTTP request and
\* leaves the file as it was.
C26_ExistingFileIsKept ==
    [][(/\ pc = "idle"
        /\ fetch'.op = "download"
        /\ ~fetch'.overwrite
        /\ target \in {"old_file", "new_file"})
        => /\ raised'.type = "SmartSchoolException"
           /\ sent' = <<>>
           /\ wire' = NoReq
           /\ pc' = "idle"
           /\ target' = target]_vars

\* the errors _complete_verification raises before its POST
VerificationHandlerMessages ==
    { "Could not find verification form fields",
      "Could not find security question field in verification form",
      "Birth date is required for verification but not provided in credentials" }
\* C27: whether it is GET /login or the login POST that lands on
\* /account-verification or on /2fa, the ceremony enters the matching handler
\* and not the other: on /account-verification its next request, if any, is
\* the verification POST to that URL (or it fails with an error of the
\* verification handler), on /2fa its next request is the GET of the 2FA
\* configuration; no call makes both a verification POST and a 2FA request;
\* and when GET /login itself lands on a challenge page no login POST is sent.
C27_ChallengeRouting ==
    /\ [][(/\ pc \in {"wait_login_get", "wait_login_post"}
           /\ pc' # pc
           /\ last' # NoLast
           /\ last'.status < 400)
          => /\ EndsWith(last'.url, P_VERIF)
                  => \/ /\ pc' = "wait_verification_post"
                        /\ sent' = Append(sent, Logged("auth", "POST", last'.url))
                     \/ /\ auth' = "Failed"
                        /\ sent' = sent
                        /\ \/ raised'.msg.text \in VerificationHandlerMessages
                           \/ raised'.cause.type = "SmartSchoolParsingError"
             /\ EndsWith(last'.url, P_2FA)
                  => /\ pc' = "wait_2fa_config"
                     /\ sent' = Append(sent, Logged("auth", "GET", TwoFaConfigUrl))
             /\ (pc = "wait_login_get" /\ (EndsWith(last'.url, P_VERIF)
                                            \/ EndsWith(last'.url, P_2FA)))
                  => \A i \in 1..Len(sent') :
                        sent'[i] # Logged("auth", "POST", LoginUrl)]_vars
    /\ [](~ /\ \E i \in 1..Len(sent) : sent[i] = Logged("auth", "POST", VerifUrl)
            /\ \E i \in 1..Len(sent) :
                  sent[i].url \in {TwoFaConfigUrl, TwoFaPostUrl})
\* GET /login landed on /2fa: the configuration is asked for, and no login
\* POST was sent
C27_Witness ==
    /\ pc = "wait_2fa_config"
    /\ sent = << Logged("auth", "GET", HomeUrl), Logged("auth", "GET", LoginUrl),
                 Logged("auth", "GET", TwoFaConfigUrl) >>
\* GET /login landed on /account-verification: the answer is posted, and no
\* login POST was sent
C27_WitnessVerification ==
    /\ pc = "wait_verification_post"
    /\ sent = << Logged("auth", "GET", HomeUrl), Logged("auth", "GET", LoginUrl),
                 Logged("auth", "POST", VerifUrl) >>

\* the form the page holds has a field whose name contains the substring
HasFieldWith(p, sub) ==
    \E i \in 1..Len(p.inputs) :
       /\ p.inputs[i].name # <<>>
       /\ Contains(p.inputs[i].name, sub)
\* C28: when GET /login lands on the login page, the login POST is sent only
\* if the form has a field whose name contains "username" and one whose name
\* contains "password"; otherwise the call fails with
\* SmartSchoolAuthenticationError and no request is added, so no login POST
\* is sent.
C28_LoginFormNeedsBothFields ==
    [][(/\ pc = "wait_login_get"
        /\ pc' # pc
        /\ last' # NoLast
        /\ last'.status < 400
        /\ EndsWith(last'.url, P_LOGIN))
       => IF pc' = "wait_login_post"
          THEN /\ HasFieldWith(page', S_username)
               /\ HasFieldWith(page', S_password)
               /\ sent' = Append(sent, Logged("auth", "POST", last'.url))
          ELSE /\ auth' = "Failed"
               /\ raised'.type = "SmartSchoolAuthenticationError"
               /\ sent' = sent]_vars
\* the login form lacked one of the two fields: the call failed after the
\* probe and GET /login, without a POST
C28_Witness ==
    /\ auth = "Failed"
    /\ raised = AuthError("Login form parsing failed: Missing username or password field.")
    /\ sent = << Logged("auth", "GET", HomeUrl), Logged("auth", "GET", LoginUrl) >>

\* C29: when a response lands on /account-verification, the verification POST
\* is sent only if the form has a field whose name contains
\* "_security_question_answer"; otherwise the call fails with
\* SmartSchoolAuthenticationError and no request is added, so no verification
\* POST is sent.
C29_VerificationFormNeedsAnswerField ==
    [][(/\ pc \in {"wait_login_get", "wait_login_post"}
        /\ pc' # pc
        /\ last' # NoLast
        /\ last'.status < 400
        /\ EndsWith(last'.url, P_VERIF))
       => IF pc' = "wait_verification_post"
          THEN /\ HasFieldWith(page', S_sqa)
               /\ sent' = Append(sent, Logged("auth", "POST", last'.url))
          ELSE /\ auth' = "Failed"
               /\ raised'.type = "SmartSchoolAuthenticationError"
               /\ sent' = sent]_vars
\* the verification form reached through the login POST had no security
\* question field: the call failed without a verification POST
C29_Witness ==
    /\ auth = "Failed"
    /\ raised = AuthError("Could not find security question field in verification form")
    /\ sent = << Logged("auth", "GET", HomeUrl), Logged("auth", "GET", LoginUrl),
                 Logged("auth", "POST", LoginUrl) >>

\* C30: a probe GET / that fails in transport (or is answered with an error
\* status) does not fail the call: the next request is GET /login, nothing is
\* raised and the outcome is still open; the probe is sent at most once per
\* call.
C30_ProbeFailureFallsThrough ==
    /\ [][(/\ pc = "wait_probe"
           /\ pc' # pc
           /\ (last' = NoLast \/ last'.status >= 400))
          => /\ pc' = "wait_login_get"
             /\ sent' = << Logged("auth", "GET", HomeUrl),
                           Logged("auth", "GET", LoginUrl) >>
             /\ auth' = "Unknown"
             /\ raised' = NoExc]_vars
    /\ [](Cardinality({ i \in 1..Len(sent) :
                          sent[i] = Logged("auth", "GET", HomeUrl) }) <= 1)
\* the probe failed in transport (no response was recorded) and GET /login
\* is in flight, with nothing raised
C30_Witness ==
    /\ pc = "wait_login_get"
    /\ last = NoLast
    /\ raised = NoExc
    /\ sent = << Logged("auth", "GET", HomeUrl), Logged("auth", "GET", LoginUrl) >>

\* C31: when the ceremony fails at its final decision (the final response is
\* on an auth-related URL, or its status is not 200), the
\* SmartSchoolAuthenticationError raised names the URL and the status code of
\* that final response.
C31_FinalErrorNamesUrlAndStatus ==
    (/\ auth = "Failed"
     /\ raised.type = "SmartSchoolAuthenticationError"
     /\ raised.msg.text \in { "Authentication failed, ended on",
                              "Authentication failed, status" })
    => /\ raised.msg.url = last.url
       /\ raised.msg.status = last.status

C33_WitnessRejected ==
    /\ auth = "Failed"
    /\ raised.msg.text = "Authentication failed, ended on"
    /\ raised.msg.url = LoginUrl
    /\ sent = << Logged("auth", "GET", HomeUrl), Logged("auth", "GET", LoginUrl),
                 Logged("auth", "POST", LoginUrl) >>

\* C35: a login form field whose name contains both "username" and "password"
\* is posted with the username and counts only as the username field: the
\* login POST is sent only if some other field contains "password" (and not
\* "username"); otherwise the call fails with SmartSchoolAuthenticationError
\* and nothing is posted.
C35_UsernameTestFirst ==
    [][(/\ pc = "wait_login_get"
        /\ pc' # pc
        /\ last' # NoLast
        /\ last'.status < 400
        /\ EndsWith(last'.url, P_LOGIN))
       => IF pc' = "wait_login_post"
          THEN /\ \A i \in 1..Len(page'.inputs) :
                     LET n == page'.inputs[i].name IN
                     (n # <<>> /\ Contains(n, S_username))
                        => Lookup(wire'.data, n) = creds.username
               /\ \E i \in 1..Len(page'.inputs) :
                     LET n == page'.inputs[i].name IN
                     /\ n # <<>>
                     /\ Contains(n, S_password)
                     /\ ~Contains(n, S_username)
                     /\ Lookup(wire'.data, n) = creds.password
          ELSE /\ auth' = "Failed"
               /\ raised'.type = "SmartSchoolAuthenticationError"
               /\ \A i \in 1..Len(sent') :
                     sent'[i] # Logged("auth", "POST", LoginUrl)]_vars
\* a form with the field username_password and a password field was posted:
\* the former carries the username
C35_Witness ==
    /\ pc = "wait_login_post"
    /\ HasFieldWith(page, S_username)
    /\ \A i \in 1..Len(page.inputs) :
          Contains(page.inputs[i].name, S_username) => page.inputs[i].name = F_BOTH
    /\ Lookup(wire.data, F_BOTH) = creds.username
    /\ creds.username # creds.password

\* the positions of the form's fields whose name contains
\* "_security_question_answer"
AnswerFields(p) ==
    { i \in 1..Len(p.inputs) :
        p.inputs[i].name # <<>> /\ Contains(p.inputs[i].name, S_sqa) }
\* the largest member of a non-empty set of numbers
Largest(S) == CHOOSE m \in S : \A k \in S : k <= m
\* C36: of the verification form's fields whose name contains
\* "_security_question_answer", only the last in form order is in the body of
\* the verification POST, where it carries the computed answer; the earlier
\* ones are not in the body at all.
C36_LastAnswerFieldOnly ==
    pc = "wait_verification_post"
    => /\ AnswerFields(page) # {}
       /\ LET l == Largest(AnswerFields(page)) IN
          /\ HasKey(wire.data, page.inputs[l].name)
          /\ Lookup(wire.data, page.inputs[l].name) = birth_date_str(creds.mfa)
          /\ \A i \in AnswerFields(page) \ {l} :
                ~HasKey(wire.data, page.inputs[i].name)
\* a verification form with two such fields was posted
C36_Witness ==
    /\ pc = "wait_verification_post"
    /\ Cardinality(AnswerFields(page)) = 2
    /\ Len(wire.data) = 1

\* C37: on a Session without credentials every get, post or json call raises
\* RuntimeError and returns to the caller at once; such a Session never has a
\* request logged or in flight, the probe included.
C37_NoCredentialsRaises ==
    /\ [][(pc = "idle" /\ creds = NoCreds)
          => /\ raised'.type = "RuntimeError"
             /\ pc' = "idle"
             /\ result' = NoResult
             /\ sent' = <<>>
             /\ wire' = NoReq]_vars
    /\ [](creds = NoCreds => sent = <<>> /\ wire = NoReq)
\* a json call was made on a Session without credentials
C37_Witness ==
    /\ creds = NoCreds
    /\ pc = "idle"
    /\ call.kind = "json_get"
    /\ raised.type = "RuntimeError"
    /\ sent = <<>>

\* C34: the request browse_course_documents and download_document make with
\* session.get(session.create_url(p)) goes to the URL session.get(p) would
\* request, https://<host>/<p without leading slashes>.
C34_AbsoluteUrlUnchanged ==
    (pc = "wait_func" /\ fetch.op \in {"browse", "download"})
    => wire.url = create_url(creds, IF fetch.op = "browse" THEN P_BROWSE
                                    ELSE P_DOWNLOAD)

\* download_document is past its pre-checks and this step ends it with its
\* SmartSchoolException
DownloadFails ==
    /\ fetch.op = "download"
    /\ pc # "idle"
    /\ pc' = "idle"
    /\ raised'.type = "SmartSchoolException"
\* C38 as stated: when download_document fails after its pre-checks, no file
\* remains at the target path, whatever was there before and however much
\* was written.
C38_NoFileRemains ==
    [][DownloadFails => ~exists(target')]_vars
\* C38 as the code has it: when download_document fails after its
\* pre-checks, the file at the target path, be it partly written or the one
\* that was there before the call, is removed, unless removing it raises
\* OSError: then it stays.
C38_NoFileRemainsUnlessUnlinkFails ==
    [][DownloadFails
       => IF target = "locked_file" THEN target' = "locked_file"
          ELSE target' = "absent"]_vars
\* a download with overwrite=True failed in the login ceremony, before
\* anything was written, and no file is at the target path
C38_Witness ==
    /\ fetch.op = "download"
    /\ fetch.overwrite
    /\ pc = "idle"
    /\ raised.type = "SmartSchoolException"
    /\ raised.cause.type = "SmartSchoolAuthenticationError"
    /\ auth = "Failed"
    /\ target = "absent"
\* a download failed and the file could not be removed
C38_WitnessKept ==
    /\ fetch.op = "download"
    /\ pc = "idle"
    /\ raised.type = "SmartSchoolException"
    /\ raised.cause # NoExc
    /\ target = "locked_file"

\* the items of pages first..Len(lens), page by page, when page n holds
\* lens[n] items
RECURSIVE ItemsOf(_, _)
ItemsOf(lens, first) ==
    IF first > Len(lens) THEN <<>>
    ELSE [i \in 1..lens[first] |-> Item(first, i)] \o ItemsOf(lens, first + 1)
\* the pages downloaded, the last of them cut to what has been yielded of it
YieldedSoFar ==
    IF json.k = "list"
    THEN [fetched EXCEPT ![Len(fetched)] = json.next - 1]
    ELSE fetched
\* C39: the Results iterator asks for pages 1, 2, 3, ... in order, each with
\* itemsOnPage=50; it yields the items of the downloaded pages in order and
\* none else; every page before the last downloaded one was full; once a page
\* with fewer than 50 items has been downloaded no further page is asked for
\* and the iteration stops after that page's items; a response with an empty
\* body (or an error status) raises SmartSchoolDownloadError and does not end
\* the iteration normally.
C39_ResultsPaging ==
    /\ requested = [n \in 1..page_nr |-> n]
    /\ (page_nr > 0 /\ call # NoCall) => call = [kind |-> "get", path |-> results_path(page_nr)]
    /\ pc = "wait_func"
         => wire.url = create_url(creds, P_RESULTS \o Decimal(page_nr)
                                          \o Q_ITEMS \o <<"5", "0">>)
    /\ Len(fetched) \in {page_nr - 1, page_nr} \cap Nat
    /\ yielded = ItemsOf(YieldedSoFar, 1)
    /\ \A n \in 1..(Len(fetched) - 1) : fetched[n] >= 50
    /\ (\E n \in 1..Len(fetched) : fetched[n] < 50)
         => Len(requested) = Len(fetched)
    /\ json.k = "stopped"
         => /\ fetched[Len(fetched)] < 50
            /\ raised = NoExc
    /\ (resp # NoResp /\ (resp.text.k = "empty" \/ resp.status >= 400))
         => /\ raised.type = "SmartSchoolDownloadError"
            /\ json = NoJson
\* two full pages and one of 49 items were downloaded and all 149 items
\* yielded, then the iteration stopped
C39_Witness ==
    /\ json.k = "stopped"
    /\ fetched = <<50, 50, 49>>
    /\ requested = <<1, 2, 3>>
    /\ Len(yielded) = 149
\* the second page came back with an empty body
C39_WitnessEmptyBody ==
    /\ page_nr = 2
    /\ resp # NoResp
    /\ resp.status = 200
    /\ resp.text.k = "empty"
    /\ raised.type = "SmartSchoolDownloadError"
    /\ Len(yielded) = 50

\* thread t's current call has sent a login POST
SentLoginPost(t) ==
    \E i \in 1..Len(threads[t].sent) :
       threads[t].sent[i] = Logged("auth", "POST", LoginUrl)
\* C32: the Session has no lock. A thread that is idle can always start its
\* call, whatever the other thread is doing, and a thread whose probe finds
\* no valid session goes on to GET /login whether or not the other thread is
\* already logging in, so two overlapping calls can each send a login POST;
\* a call that starts after a login POST has succeeded, the portal keeping
\* the session valid, sends no login POST.
C32_NoInternalLocking ==
    /\ [](\A t \in Threads :
            (threads[t].pc = "idle" /\ threads[t].calls < MaxCalls)
               => ENABLED thread_inner(t))
    /\ [][\A t \in Threads :
            (/\ threads[t].pc = "wait_probe"
             /\ threads'[t].pc # "wait_probe"
             /\ jar = "anonymous")
            => /\ threads'[t].pc = "wait_login_get"
               /\ threads'[Other(t)] = threads[Other(t)]]_vars
    /\ [](\A t \in Threads :
            threads[t].began = "authenticated" => ~SentLoginPost(t))
\* both threads have sent their own login POST and wait for its response
C32_Witness ==
    /\ \A t \in Threads :
          /\ threads[t].pc = "wait_login_post"
          /\ SentLoginPost(t)
          /\ threads[t].overlapped
\* the calls were serialized: the second thread's call began after the first
\* thread's call had logged in and returned, and goes without a login POST
C32_WitnessSerialized ==
    /\ threads[1].pc = "idle" /\ threads[1].calls = 1
    /\ SentLoginPost(1)
    /\ ~threads[1].overlapped
    /\ threads[2].pc = "wait_func" /\ threads[2].calls = 1
    /\ ~threads[2].overlapped
    /\ threads[2].began = "authenticated"
    /\ ~SentLoginPost(2)

====
